---------------------------- MODULE Spec2Model ----------------------------
(***************************************************************************)
(* Model of the lockstep network client of hydra-bot                       *)
(* (src/src/net_client.rs, src/src/net_packet.rs).                         *)
(*                                                                         *)
(* The client object NetClient is one record, `client`, whose fields carry *)
(* the names of the struct fields.  Two more fields observe what leaves    *)
(* the client: `sent` (the datagrams handed to connection.send_packet by   *)
(* the operation in progress) and `delivered` (the tics handed to          *)
(* receive_tic by advance_window).                                         *)
(*                                                                         *)
(* net_client.rs holds several side-by-side definitions of the same        *)
(* methods.  `draft` says which set is the compiled one: "first" (the      *)
(* first definition of every method) or "last" (the last one).             *)
(*                                                                         *)
(* Time is counted in units of 100 ms.  Instants are only ever compared    *)
(* through differences, so the clock slides once it reaches MaxNow.        *)
(***************************************************************************)
EXTENDS Integers, Sequences, FiniteSets, TLC

VARIABLES client, now, inbox, last, pc, start_time, connect_ret, ex_tic, ex_out,
          pacer, ticdiff, packet, io, dup, sync

vars == <<client, now, inbox, last, pc, start_time, connect_ret, ex_tic, ex_out,
          pacer, ticdiff, packet, io, dup, sync>>

---------------------------------------------------------------------------
(* Program constants *)

BACKUPTICS == 128

NET_MAXPLAYERS == 8

\* Duration::from_millis(300), in units of 100 ms
RESEND_TIMEOUT == 3

\* Duration::from_millis(200)
ACK_TIMEOUT == 2

\* Duration::from_secs(1) in connect: the SYN interval
SYN_INTERVAL == 10

\* Duration::from_secs(120) in connect
CONNECT_TIMEOUT == 1200

(* The statics of d_loop.rs and the locals of try_run_tics *)

\* TICDUP, NEW_SYNC, SINGLETICS and DRONE are statics no code writes
TICDUP == 1

DRONE == FALSE

NEW_SYNC == TRUE

TICRATE == 35

MAX_NETGAME_STALL_TICS == 2

FRACUNIT == 65536

\* the module's statics at program start; clock is the system time in
\* units of FRACUNIT milliseconds, enter_tic, lowtic and counts are the
\* locals of try_run_tics, entered the clock reading at which try_run_tics
\* was called, panic the message of a fatal check that fired.
\* No code writes a tic of another player into TICDATA, so TICDATA and
\* LOCAL_PLAYERINGAME keep the entry of LOCALPLAYER only.
d_loop_statics ==
    [ MAKETIC |-> 0, RECVTIC |-> 0, GAMETIC |-> 0, LASTTIME |-> 0,
      SKIPTICS |-> 0, OLDENTERTICS |-> 0,
      LOCAL_PLAYERINGAME |-> FALSE,
      TICDATA |-> [i \in 0..(BACKUPTICS - 1) |-> FALSE],
      clock |-> 0, entered |-> 0, enter_tic |-> 0, lowtic |-> 0,
      counts |-> 0,
      panic |-> "none" ]

(* Bounds of the model *)

\* tics the server produces: 0 .. MaxTic-1
MaxTic == 2

\* datagrams the transport can hold between two polls
MaxInbox == 2

\* the clock of the game slides from here on (above RESEND_TIMEOUT)
MaxNow == 4

\* latest wall-clock time of the handshake model
MaxConnectNow == 1250

\* largest recv_window_start drawn for expand_tic_num
MaxExpand == 300

\* run() is not followed once the receive window starts here or later
MaxWindow == 2

---------------------------------------------------------------------------
(* Integer casts.  A u32 or usize value is written as the signed integer   *)
(* with the same bits, so a negative number stands for a value of 2^31 or  *)
(* more and wrapping addition is plain addition.                           *)

\* `x as u32`, `x as i32`: same bits
AsU32(x) == x

AsI32(x) == x

\* `a <= b` on unsigned values
ULe(a, b) == IF (a < 0) = (b < 0) THEN a <= b ELSE b < 0

\* `x as usize >= n` for a small n >= 0
UGe(x, n) == x < 0 \/ x >= n

\* `index < BACKUPTICS` on a usize
InRing(index) == 0 <= index /\ index < BACKUPTICS

\* `x as i8` of an integer
AsI8(x) == LET m == x % 256 IN IF m >= 128 THEN m - 256 ELSE m

\* the i8 that read_i8 returns for a wire byte
ReadI8(b) == IF b >= 128 THEN b - 256 ELSE b

Min(a, b) == IF a < b THEN a ELSE b

Max(a, b) == IF a > b THEN a ELSE b

---------------------------------------------------------------------------
(* Data *)

NoSettings == [num_players |-> 0, consoleplayer |-> 0, extratics |-> 0, map |-> 0]

NoReason == "None"

\* NetFullTiccmd::default(); `tic` names the server tic whose inputs the
\* bundle carries (-1: none)
NoCmd == [latency |-> 0, tic |-> -1]

\* a receive-ring slot as NetFullTiccmd::default() leaves it
EmptyRecvSlot == [active |-> FALSE, resend_time |-> 0, cmd |-> NoCmd]

\* TicCmd::default()
TicCmd_default ==
    [ forwardmove |-> 0, sidemove |-> 0, angleturn |-> 0, chatchar |-> 0,
      buttons |-> 0, consistancy |-> 0, buttons2 |-> 0, inventory |-> 0,
      lookfly |-> 0, arti |-> 0 ]

\* the bits of NetTicdiff.diff; a mask is the set of its bits
NET_TICDIFF_FORWARD == 1

NET_TICDIFF_SIDE == 2

NET_TICDIFF_TURN == 4

NET_TICDIFF_BUTTONS == 8

NET_TICDIFF_CONSISTANCY == 16

NET_TICDIFF_CHATCHAR == 32

NET_TICDIFF_RAVEN == 64

NET_TICDIFF_STRIFE == 128

\* NetTicdiff::default().  The struct has no fields in src/; its fields are
\* the ones the methods use: diff and cmd (the mask and the command it
\* covers) and the three deltas forwardmove, sidemove, angleturn.
NetTicdiff_default ==
    [ diff |-> {}, cmd |-> TicCmd_default,
      forwardmove |-> 0, sidemove |-> 0, angleturn |-> 0 ]

\* calculate_ticcmd_diff against last_ticcmd; the caller hands in diff
calculate_ticcmd_diff(draft, last_ticcmd, ticcmd, diff) ==
    IF draft = "first"
    THEN [diff EXCEPT !.forwardmove = ticcmd.forwardmove - last_ticcmd.forwardmove,
                      !.sidemove = ticcmd.sidemove - last_ticcmd.sidemove,
                      !.angleturn = ticcmd.angleturn - last_ticcmd.angleturn]
    ELSE [diff EXCEPT
            !.cmd = ticcmd,
            !.diff =
               (IF last_ticcmd.forwardmove # ticcmd.forwardmove
                THEN {NET_TICDIFF_FORWARD} ELSE {})
               \cup (IF last_ticcmd.sidemove # ticcmd.sidemove
                     THEN {NET_TICDIFF_SIDE} ELSE {})
               \cup (IF last_ticcmd.angleturn # ticcmd.angleturn
                     THEN {NET_TICDIFF_TURN} ELSE {})
               \cup (IF last_ticcmd.buttons # ticcmd.buttons
                     THEN {NET_TICDIFF_BUTTONS} ELSE {})
               \cup (IF last_ticcmd.consistancy # ticcmd.consistancy
                     THEN {NET_TICDIFF_CONSISTANCY} ELSE {})
               \cup (IF ticcmd.chatchar # 0 THEN {NET_TICDIFF_CHATCHAR} ELSE {})
               \cup (IF last_ticcmd.lookfly # ticcmd.lookfly \/ ticcmd.arti # 0
                     THEN {NET_TICDIFF_RAVEN} ELSE {})
               \cup (IF last_ticcmd.buttons2 # ticcmd.buttons2 \/ ticcmd.inventory # 0
                     THEN {NET_TICDIFF_STRIFE} ELSE {})]

\* apply_ticcmd_diff: the value of *result afterwards
apply_ticcmd_diff(draft, base, diff, result) ==
    IF draft = "first"
    THEN [ forwardmove |-> IF NET_TICDIFF_FORWARD \in diff.diff
                           THEN diff.cmd.forwardmove ELSE base.forwardmove,
           sidemove |-> IF NET_TICDIFF_SIDE \in diff.diff
                        THEN diff.cmd.sidemove ELSE base.sidemove,
           angleturn |-> IF NET_TICDIFF_TURN \in diff.diff
                         THEN diff.cmd.angleturn ELSE base.angleturn,
           buttons |-> IF NET_TICDIFF_BUTTONS \in diff.diff
                       THEN diff.cmd.buttons ELSE base.buttons,
           consistancy |-> IF NET_TICDIFF_CONSISTANCY \in diff.diff
                           THEN diff.cmd.consistancy ELSE base.consistancy,
           chatchar |-> IF NET_TICDIFF_CHATCHAR \in diff.diff
                        THEN diff.cmd.chatchar ELSE 0,
           lookfly |-> IF NET_TICDIFF_RAVEN \in diff.diff
                       THEN diff.cmd.lookfly ELSE base.lookfly,
           arti |-> IF NET_TICDIFF_RAVEN \in diff.diff THEN diff.cmd.arti ELSE 0,
           buttons2 |-> IF NET_TICDIFF_STRIFE \in diff.diff
                        THEN diff.cmd.buttons2 ELSE base.buttons2,
           inventory |-> IF NET_TICDIFF_STRIFE \in diff.diff
                         THEN diff.cmd.inventory ELSE 0 ]
    ELSE [result EXCEPT !.forwardmove = base.forwardmove + diff.forwardmove,
                        !.sidemove = base.sidemove + diff.sidemove,
                        !.angleturn = base.angleturn + diff.angleturn]

\* a send-ring slot as NetTicdiff::default() leaves it
EmptySendSlot == [active |-> FALSE, seq |-> 0, time |-> 0, cmd |-> NetTicdiff_default]

\* no diff computed yet: the base and the current command, the diff
\* computed from them and the command the diff was applied to
NoTicdiff ==
    [ calculate |-> "first", apply |-> "first",
      base |-> TicCmd_default, cur |-> TicCmd_default,
      diff |-> NetTicdiff_default, result |-> TicCmd_default ]

\* NetPacket::new()
NetPacket_new == [data |-> <<>>, pos |-> 0]

\* Option values: <<v>> is Some(v), <<>> is None
None == <<>>

\* no packet operation has run: the values written so far, the last read
\* and what it returned, and the cursor before it
NoIo == [writes |-> <<>>, op |-> "none", value |-> None, before |-> 0]

\* no tic of the game is being run
NoDup == [pc |-> "none", ticdup |-> 1, set |-> <<>>, original |-> <<>>,
          seen |-> <<>>, GAMETIC |-> 0, entry |-> 0, lowtic |-> 0]

\* update_clock_sync has not been called
NoSync == [calls |-> 0, cumul_error |-> 0, last_error |-> 0, offset_ms |-> 0,
           derivative |-> 0, sum |-> 0, previous |-> 0, OFFSETMS |-> 0]

NoWaitData == [num_players |-> 0, max_players |-> 0, ready_players |-> 0, consoleplayer |-> 0]

\* The receive-ring slot that holds a decoded bundle.  The slot type
\* {active, resend_time, cmd} is not among the sources; section 4.6 of the
\* specification: "store bundles[i] at ring offset ...; mark active".
RecvSlotOf(old, cmd) == [active |-> TRUE, resend_time |-> old.resend_time, cmd |-> cmd]

\* NetClient::new
NetClient_new(drone, draft) ==
    [ connection_state |-> "Disconnected",
      connection_connected |-> FALSE,
      connection_peer_disconnect |-> FALSE,
      state |-> "Disconnected",
      settings |-> NoSettings,
      has_settings |-> FALSE,
      reject_reason |-> NoReason,
      drone |-> drone,
      recv_window_start |-> 0,
      recv_window |-> [i \in 0..(BACKUPTICS - 1) |-> EmptyRecvSlot],
      send_queue |-> [i \in 0..(BACKUPTICS - 1) |-> EmptySendSlot],
      need_acknowledge |-> FALSE,
      gamedata_recv_time |-> 0,
      last_latency |-> 0,
      net_waiting_for_launch |-> FALSE,
      net_client_connected |-> FALSE,
      net_client_received_wait_data |-> FALSE,
      net_client_wait_data |-> NoWaitData,
      last_send_time |-> 0,
      last_ticcmd |-> TicCmd_default,
      faulted |-> FALSE,
      stuck |-> FALSE,
      overflow_checks |-> FALSE,
      draft |-> draft,
      sent |-> <<>>,
      delivered |-> <<>> ]

---------------------------------------------------------------------------
(* Datagrams the server side can put on the wire *)

\* the bundle the server produced for tic t
Bundle(t) == [latency |-> 1, tic |-> t]

\* GAMEDATA carrying the n tics from t on, as the server encodes it:
\* the 8-bit sequence number is t & 0xff
GameData(t, n) ==
    [type |-> "GAMEDATA", seq |-> t % 256, num_tics |-> n,
     cmds |-> [i \in 1..n |-> Bundle(t + i - 1)]]

\* every datagram that carries produced tics only
GameDataPackets ==
    {GameData(x[1], x[2]) :
        x \in {y \in (0..(MaxTic - 1)) \X (1..MaxTic) : y[1] + y[2] <= MaxTic}}

\* GAMEDATA cut off after its first k bundles: the header still announces
\* n tics, and read_full_ticcmd returns None for the bundles that are missing
TruncatedGameData(t, n, k) ==
    [GameData(t, n) EXCEPT !.cmds = [i \in 1..k |-> Bundle(t + i - 1)]]

\* one datagram cut off after its first bundle and one with no bundle left
TruncatedGameDataPackets == {TruncatedGameData(0, 2, 1), TruncatedGameData(0, 1, 0)}

GameStart(n, cp, m) ==
    [type |-> "GAMESTART",
     settings |-> [num_players |-> n, consoleplayer |-> cp, extratics |-> 1, map |-> m]]

\* two valid settings for a player, one for a drone, a console player out
\* of range and a player count above NET_MAXPLAYERS
GameStartPackets ==
    {GameStart(2, 0, 1), GameStart(2, 0, 2), GameStart(2, -1, 1), GameStart(2, 2, 1),
     GameStart(9, 0, 1)}

WaitingData(n, mx, r, cp) ==
    [type |-> "WAITING_DATA",
     wait_data |-> [num_players |-> n, max_players |-> mx, ready_players |-> r,
                    consoleplayer |-> cp]]

\* lobby data for a player and for a drone, the three insane shapes, and
\* a player count above NET_MAXPLAYERS
WaitingDataPackets ==
    {WaitingData(2, 4, 1, 0), WaitingData(2, 4, 1, -1), WaitingData(5, 4, 1, 0),
     WaitingData(2, 4, 3, 0), WaitingData(2, 9, 1, 0), WaitingData(9, 9, 1, 0)}

SynPackets ==
    {[type |-> "SYN", protocol |-> p] : p \in {"CHOCOLATE_DOOM_0", "OTHER"}}

RejectPackets == {[type |-> "REJECTED", reason |-> "server full"]}

LaunchPackets == {[type |-> "LAUNCH", num_players |-> 2]}

DisconnectPackets == {[type |-> "DISCONNECT"]}

Packets ==
    GameDataPackets \cup TruncatedGameDataPackets \cup GameStartPackets \cup WaitingDataPackets \cup SynPackets
      \cup RejectPackets \cup LaunchPackets \cup DisconnectPackets

---------------------------------------------------------------------------
(* The connection object and the transport *)

\* connection.send_packet: the datagram leaves the client
send_packet(c, p) == [c EXCEPT !.sent = Append(@, p)]

\* NetConnection::disconnect
connection_disconnect(c) ==
    [c EXCEPT !.connection_state = "Disconnected", !.connection_connected = FALSE]

\* NetConnection::init_client has no body in the sources; section 4.3 of
\* the specification: a client connection starts in Connecting.
connection_init_client(c) == [c EXCEPT !.connection_state = "Connecting"]

\* NetConnection::run has no body in the sources; section 4.3 of the
\* specification: Connected -> Disconnected on the peer's DISCONNECT.
\* connection_recv is the connection layer seeing a datagram of the
\* transport, connection_run its periodic step.
connection_recv(c, p) ==
    IF p.type = "DISCONNECT" THEN [c EXCEPT !.connection_peer_disconnect = TRUE] ELSE c

connection_run(c) ==
    IF c.connection_state = "Connected" /\ c.connection_peer_disconnect
    THEN [c EXCEPT !.connection_state = "Disconnected"]
    ELSE c

\* NetPacket::read_protocol
read_protocol(p) ==
    IF p.protocol = "CHOCOLATE_DOOM_0" THEN "ChocolateDoom0" ELSE "Unknown"

---------------------------------------------------------------------------
(* Handshake and lobby handlers *)

parse_syn(c, p) ==
    IF read_protocol(p) = "Unknown" THEN c
    ELSE [c EXCEPT !.connection_state = "Connected"]

parse_reject(c, p) ==
    IF c.connection_state = "Connecting"
    THEN [c EXCEPT !.connection_state = "Disconnected", !.reject_reason = p.reason]
    ELSE c

\* NetPacket::read_wait_data: player_names and player_addrs have
\* NET_MAXPLAYERS entries and are indexed by 0 .. num_players-1
read_wait_data_faults(p) == p.wait_data.num_players > NET_MAXPLAYERS

parse_waiting_data(c, p) ==
    LET w == p.wait_data IN
    IF read_wait_data_faults(p) THEN [c EXCEPT !.faulted = TRUE]
    ELSE IF w.num_players > w.max_players
         \/ w.ready_players > w.num_players
         \/ w.max_players > NET_MAXPLAYERS
    THEN c
    ELSE IF (w.consoleplayer >= 0 /\ c.drone)
              \/ (w.consoleplayer < 0 /\ ~c.drone)
              \/ UGe(w.consoleplayer, w.num_players)
    THEN c
    ELSE IF c.draft = "first"
    THEN [c EXCEPT !.net_client_wait_data = w,
                   !.net_client_received_wait_data = TRUE]
    ELSE c

\* parse_launch without its session-state check
parse_launch_any_state(c, p) == [c EXCEPT !.state = "WaitingStart"]

parse_launch(c, p) ==
    IF c.state # "WaitingLaunch" THEN c
    ELSE IF c.draft = "first"
    THEN [c EXCEPT !.net_client_wait_data.num_players = p.num_players,
                   !.state = "WaitingStart"]
    ELSE [c EXCEPT !.state = "WaitingStart"]

\* NetPacket::read_settings: player_classes has NET_MAXPLAYERS entries and
\* is indexed by 0 .. num_players-1
read_settings_faults(p) == p.settings.num_players > NET_MAXPLAYERS

parse_game_start(c, p) ==
    LET settings == p.settings IN
    IF read_settings_faults(p) THEN [c EXCEPT !.faulted = TRUE]
    ELSE IF c.state # "WaitingStart" THEN c
    ELSE IF settings.num_players > NET_MAXPLAYERS
              \/ UGe(settings.consoleplayer, settings.num_players)
    THEN c
    ELSE IF (c.drone /\ settings.consoleplayer >= 0)
              \/ (~c.drone /\ settings.consoleplayer < 0)
    THEN c
    ELSE IF c.draft = "first"
    THEN [c EXCEPT !.state = "InGame",
                   !.settings = settings,
                   !.has_settings = TRUE,
                   !.recv_window_start = 0,
                   !.recv_window = [i \in 0..(BACKUPTICS - 1) |-> EmptyRecvSlot],
                   !.send_queue = [i \in 0..(BACKUPTICS - 1) |-> EmptySendSlot]]
    ELSE [c EXCEPT !.state = "InGame",
                   !.settings = settings,
                   !.has_settings = TRUE,
                   !.recv_window_start = 0]

---------------------------------------------------------------------------
(* Receive ring *)

\* expand_tic_num; u32 addition wraps
expand_tic_num(c, relative) == c.recv_window_start + relative

update_clock_sync(c, seq, remote_latency, t) ==
    IF c.draft = "first"
    THEN [c EXCEPT !.last_latency = t - c.send_queue[seq % BACKUPTICS].time]
    ELSE [c EXCEPT !.last_latency = 0]

\* the `for i in 0..num_tics` loop of parse_game_data, from iteration i on
RECURSIVE store_tics(_, _, _, _, _, _)
store_tics(c, p, seq, num_tics, i, t) ==
    IF i >= num_tics THEN c
    ELSE IF i + 1 > Len(p.cmds)
    THEN store_tics(c, p, seq, num_tics, i + 1, t)
    ELSE LET cmd == p.cmds[i + 1]
             index == seq + i - c.recv_window_start
             c1 == IF InRing(index)
                   THEN [c EXCEPT !.recv_window[index] = RecvSlotOf(@, cmd)]
                   ELSE c
             c2 == IF InRing(index) /\ i = num_tics - 1
                   THEN update_clock_sync(c1, seq + i, cmd.latency, t)
                   ELSE c1
         IN store_tics(c2, p, seq, num_tics, i + 1, t)

\* the slots start .. end of the request get the request's time
send_resend_request(c, start, end, t) ==
    LET c1 == send_packet(c, [type |-> "GAMEDATA_RESEND", start |-> AsI32(start),
                              num_tics |-> AsI8(end - start + 1)])
    IN [c1 EXCEPT !.recv_window =
          [i \in 0..(BACKUPTICS - 1) |->
              IF start <= c.recv_window_start + i /\ c.recv_window_start + i <= end
              THEN [c.recv_window[i] EXCEPT !.resend_time = t]
              ELSE c.recv_window[i]]]

\* the `while resend_start >= 0 && !active` loop of parse_game_data
RECURSIVE gap_start(_, _)
gap_start(c, resend_start) ==
    IF resend_start >= 0 /\ ~c.recv_window[resend_start].active
    THEN gap_start(c, resend_start - 1)
    ELSE resend_start

parse_game_data(c, p, t) ==
    LET seq == expand_tic_num(c, AsU32(ReadI8(p.seq)))
        num_tics == ReadI8(p.num_tics)
        c1 == store_tics(c, p, seq, num_tics, 0, t)
        c2 == [c1 EXCEPT !.need_acknowledge = TRUE, !.gamedata_recv_time = t]
        resend_end == AsI32(seq) - AsI32(c2.recv_window_start)
        resend_start == gap_start(c2, resend_end - 1)
    IN IF resend_end > 0 /\ resend_start < resend_end - 1
       THEN send_resend_request(c2, c2.recv_window_start + resend_start + 1,
                                c2.recv_window_start + resend_end - 1, t)
       ELSE c2

\* receive_tic: the simulation gets the tic
receive_tic(c, seq, cmd) == [c EXCEPT !.delivered = Append(@, [seq |-> seq, cmd |-> cmd])]

RECURSIVE advance_window(_)
advance_window(c) ==
    IF ~c.recv_window[0].active THEN c
    ELSE LET c1 == receive_tic(c, c.recv_window_start, c.recv_window[0].cmd)
             c2 == [c1 EXCEPT
                      !.recv_window =
                          [i \in 0..(BACKUPTICS - 1) |->
                              IF i = BACKUPTICS - 1 THEN EmptyRecvSlot
                              ELSE c.recv_window[i + 1]],
                      !.recv_window_start = @ + 1]
         IN advance_window(c2)

send_game_data_ack(c) ==
    [send_packet(c, [type |-> "GAMEDATA_ACK", ack |-> c.recv_window_start % 256])
        EXCEPT !.need_acknowledge = FALSE]

\* need_resend of slot i in the `for i in 0..BACKUPTICS` loop of
\* check_resends.  The inner `let need_resend = true` of the slot-0 case
\* declares a new local and leaves this one as it was.
need_resend(c, i, t) ==
    ~c.recv_window[i].active /\ t - c.recv_window[i].resend_time > RESEND_TIMEOUT

\* The loop of check_resends.  It sends one request for every maximal run
\* of consecutive slots with need_resend, in slot order: a run is closed at
\* the first slot without need_resend, the last one after the loop.  A
\* request stamps only slots the loop has already passed, so need_resend is
\* the one of the state before the loop.
resend_scan(c, t) ==
    LET needy == {i \in 0..(BACKUPTICS - 1) : need_resend(c, i, t)}
        starts == {i \in needy : i = 0 \/ (i - 1) \notin needy}
        EndOf(a) == CHOOSE b \in needy :
                        /\ b >= a
                        /\ \A k \in a..b : k \in needy
                        /\ (b = BACKUPTICS - 1 \/ (b + 1) \notin needy)
        Nth(k) == CHOOSE a \in starts : Cardinality({x \in starts : x < a}) = k - 1
        requests == [k \in 1..Cardinality(starts) |->
                        [type |-> "GAMEDATA_RESEND",
                         start |-> AsI32(c.recv_window_start + Nth(k)),
                         num_tics |-> AsI8(EndOf(Nth(k)) - Nth(k) + 1)]]
    IN [c EXCEPT !.sent = @ \o requests,
                 !.recv_window = [i \in 0..(BACKUPTICS - 1) |->
                                     IF i \in needy
                                     THEN [c.recv_window[i] EXCEPT !.resend_time = t]
                                     ELSE c.recv_window[i]]]

\* check_resends acknowledging without looking at the clock
check_resends_eager(c, t) ==
    LET c1 == resend_scan(c, t)
    IN IF c1.need_acknowledge THEN send_game_data_ack(c1) ELSE c1

check_resends(c, t) ==
    LET c1 == resend_scan(c, t)
    IN IF c1.need_acknowledge /\ t - c1.gamedata_recv_time > ACK_TIMEOUT
       THEN send_game_data_ack(c1)
       ELSE c1

---------------------------------------------------------------------------
(* Send ring *)

send_tics(c, start, end) ==
    IF ~c.connection_connected THEN c
    ELSE [send_packet(c, [type |-> "GAMEDATA",
                          ack |-> c.recv_window_start % 256,
                          seq |-> start % 256,
                          num_tics |-> (end - start + 1) % 256,
                          cmds |-> [k \in 1..(end - start + 1) |->
                                       c.send_queue[(start + k - 1) % BACKUPTICS].cmd]])
            EXCEPT !.need_acknowledge = FALSE]

\* settings.as_ref().unwrap() aborts the process when no settings are stored
send_ticcmd(c, ticcmd, maketic, t) ==
    LET diff == calculate_ticcmd_diff(c.draft, c.last_ticcmd, ticcmd,
                                      NetTicdiff_default)
        c1 == [c EXCEPT !.send_queue[maketic % BACKUPTICS] =
                          [active |-> TRUE, seq |-> maketic, time |-> t, cmd |-> diff]]
    IN IF ~c.has_settings THEN [c1 EXCEPT !.faulted = TRUE]
       ELSE LET starttic == IF maketic < c.settings.extratics THEN 0
                            ELSE maketic - c.settings.extratics
            IN send_tics(c1, starttic, maketic)

\* `a < b` on unsigned values
ULt(a, b) == a # b /\ ULe(a, b)

\* The tics a send slot can pass the test of parse_resend_request for: the
\* slot of v is v % BACKUPTICS, and it passes when it is active and stores
\* seq = v, so only the seq of an active slot that lies in its own slot does.
valid_tics(c) ==
    {c.send_queue[i].seq :
        i \in {j \in 0..(BACKUPTICS - 1) :
                  c.send_queue[j].active /\ c.send_queue[j].seq % BACKUPTICS = j}}

\* the valid tics of the unsigned interval lo ..= hi
valid_between(c, lo, hi) == {v \in valid_tics(c) : ULe(lo, v) /\ ULe(v, hi)}

\* The first `while` loop of parse_resend_request counts resend_start up to
\* the first valid tic of resend_start ..= resend_end, or to resend_end + 1
\* when there is none.  (The loop takes one step per tic; the interval can
\* hold 2^32 tics, so its result is given in closed form.)
skip_front(c, resend_start, resend_end) ==
    LET hits == valid_between(c, resend_start, resend_end)
    IN IF ~ULe(resend_start, resend_end) THEN resend_start
       ELSE IF hits # {} THEN CHOOSE v \in hits : \A w \in hits : ULe(v, w)
       ELSE resend_end + 1

\* `resend_start += 1` is reached with resend_start = u32::MAX (written -1):
\* the interval ends at u32::MAX and holds no valid tic
skip_front_overflows(c, resend_start, resend_end) ==
    /\ ULe(resend_start, resend_end)
    /\ resend_end = -1
    /\ valid_between(c, resend_start, resend_end) = {}

\* The second `while` loop counts resend_end down to the last valid tic of
\* resend_start ..= resend_end; after the first loop resend_start is valid
\* whenever the interval is not empty.
skip_back(c, resend_start, resend_end) ==
    LET hits == valid_between(c, resend_start, resend_end)
    IN IF ~ULe(resend_start, resend_end) THEN resend_end
       ELSE IF hits # {} THEN CHOOSE v \in hits : \A w \in hits : ULe(w, v)
       ELSE resend_start - 1

\* parse_resend_request after its first loop left resend_start
resend_from(c, resend_start, end) ==
    LET resend_end == skip_back(c, resend_start, end)
    IN IF ULe(resend_start, resend_end)
       THEN send_tics(c, resend_start, resend_end)
       ELSE c

\* When the first loop overflows, a build with overflow checks panics; one
\* without wraps resend_start to 0 and goes on counting, for ever when no
\* slot is valid.
parse_resend_request(c, p) ==
    IF c.drone THEN c
    ELSE LET end == AsU32(p.start + ReadI8(p.num_tics) - 1)
         IN IF ~skip_front_overflows(c, AsU32(p.start), end)
            THEN resend_from(c, skip_front(c, AsU32(p.start), end), end)
            ELSE IF c.overflow_checks THEN [c EXCEPT !.faulted = TRUE]
            ELSE IF valid_tics(c) = {} THEN [c EXCEPT !.stuck = TRUE]
            ELSE resend_from(c, skip_front(c, 0, end), end)

\* generate_bot_ticcmd: the command of a bot tic
BotTicCmd == [TicCmd_default EXCEPT !.forwardmove = 50]

run_bot(c, t) ==
    IF c.state = "InGame" /\ c.drone
    THEN send_ticcmd(c, BotTicCmd, c.recv_window_start + BACKUPTICS, t)
    ELSE c

---------------------------------------------------------------------------
(* run() *)

shutdown(c) ==
    LET c1 == IF c.connection_connected THEN connection_disconnect(c) ELSE c
    IN [c1 EXCEPT !.state = "Disconnected"]

\* handle_disconnected leaving the session as it is
handle_disconnected_ignored(c) == c

\* the first definition tells the simulation (receive_tic with no player in
\* game) and shuts down; the last one sets the state and shuts down
handle_disconnected(c) == shutdown(c)

parse_packet(c, p, t) ==
    CASE p.type = "SYN" -> parse_syn(c, p)
      [] p.type = "REJECTED" -> parse_reject(c, p)
      [] p.type = "WAITING_DATA" -> parse_waiting_data(c, p)
      [] p.type = "LAUNCH" -> parse_launch(c, p)
      [] p.type = "GAMESTART" -> parse_game_start(c, p)
      [] p.type = "GAMEDATA" -> parse_game_data(c, p, t)
      [] p.type = "GAMEDATA_RESEND" -> parse_resend_request(c, p)
      [] OTHER -> c


\* one turn of the `while let Some(..) = recv_packet()` loop
recv_one(c, p, t) == parse_packet(connection_recv(c, p), p, t)

\* the receive loop over the datagrams the transport holds; a fault ends
\* the process
RECURSIVE recv_loop(_, _, _)
recv_loop(c, pkts, t) ==
    IF pkts = <<>> \/ c.faulted THEN c
    ELSE recv_loop(recv_one(c, Head(pkts), t), Tail(pkts), t)

\* what run() does after the receive loop
run_tail(c, t) ==
    LET c1 == connection_run(c)
        c2 == IF c1.connection_state \in {"Disconnected", "DisconnectedSleep"}
              THEN handle_disconnected(c1) ELSE c1
        c3 == IF c2.state = "InGame" THEN check_resends(advance_window(c2), t) ELSE c2
    IN [c3 EXCEPT !.net_waiting_for_launch =
            (c3.connection_state = "Connected" /\ c3.state = "WaitingLaunch")]

\* run() without its connection-state check
run_polls_always(c) == ~c.faulted

\* whether run() gets past its connection-state check
run_polls(c) == ~c.faulted /\ c.connection_state = "Connected"

\* run() as one call on the datagrams the transport holds
run(c, pkts, t) ==
    LET c0 == run_bot(c, t)
    IN IF ~run_polls(c0) THEN c0
       ELSE LET c1 == recv_loop(c0, pkts, t)
            IN IF c1.faulted THEN c1 ELSE run_tail(c1, t)

\* disconnect() without its final shutdown()
disconnect_without_shutdown(c) ==
    IF ~c.net_client_connected THEN c ELSE connection_disconnect(c)

\* disconnect(): connection.disconnect() leaves the connection Disconnected,
\* so the polling loop is not entered
disconnect(c) ==
    IF ~c.net_client_connected THEN c
    ELSE shutdown(connection_disconnect(c))

---------------------------------------------------------------------------
(* The session: a joined client, the server's datagrams and the clock.     *)
(*                                                                         *)
(* run() is followed statement by statement: pc = "recv" while it is in    *)
(* its receive loop (one datagram per step), and nothing else moves until  *)
(* it has returned.  `last` names the step just taken and the session      *)
(* state it started from; client.sent holds what that step sent.           *)

\* The client as connect() leaves it in its success branch: the connection
\* is Connected and the session waits for LAUNCH.
JoinedClient(drone, draft) ==
    [NetClient_new(drone, draft) EXCEPT
        !.connection_state = "Connected",
        !.state = "WaitingLaunch",
        !.net_client_connected = TRUE]

\* the instant the session is followed from
SessionStart == 1

\* the client when a step starts: nothing sent yet
Fresh(c) == [c EXCEPT !.sent = <<>>]

StepOf(p, c) == [pkt |-> p, state |-> c.state]

NoStep == [pkt |-> [type |-> "none"], state |-> "Disconnected"]

\* the client was built at instant 0 (NetClient_new) and is followed from
\* one unit later, either joined or never connected; the clock stands still
\* in this specification, which leaves the timers to SpecLive
Init ==
    /\ \E drone \in BOOLEAN, draft \in {"first", "last"} :
          client \in {JoinedClient(drone, draft), NetClient_new(drone, draft)}
    /\ now = SessionStart
    /\ inbox = <<>>
    /\ last = NoStep
    /\ pc = "idle"
    /\ start_time = 0
    /\ connect_ret = "none"
    /\ ex_tic = 0
    /\ ex_out = 0
    /\ pacer = d_loop_statics
    /\ ticdiff = NoTicdiff
    /\ packet = NetPacket_new
    /\ io = NoIo
    /\ dup = NoDup
    /\ sync = NoSync

\* the embedder calls run(): run_bot, then the connection-state check
RunBegin ==
    /\ pc = "idle"
    /\ ~client.faulted
    /\ client.recv_window_start < MaxWindow
    /\ client' = run_bot(Fresh(client), now)
    /\ pc' = IF run_polls(client') THEN "recv" ELSE "idle"
    /\ last' = StepOf([type |-> "run"], client)
    /\ UNCHANGED <<now, inbox, start_time, connect_ret, ex_tic, ex_out, pacer, ticdiff, packet, io, dup, sync>>

\* One turn of the receive loop: recv_packet() returns the datagram p.  The
\* network may lose, duplicate and reorder, so any datagram can be the next.
RunRecv(p) ==
    /\ pc = "recv"
    /\ client' = recv_one(Fresh(client), p, now)
    /\ last' = StepOf(p, client)
    /\ pc' = IF client'.faulted THEN "idle" ELSE "recv"
    /\ UNCHANGED <<now, inbox, start_time, connect_ret, ex_tic, ex_out, pacer, ticdiff, packet, io, dup, sync>>

\* recv_packet() returns None: the rest of run()
RunEnd ==
    /\ pc = "recv"
    /\ client' = run_tail(Fresh(client), now)
    /\ last' = StepOf([type |-> "run_tail"], client)
    /\ pc' = "idle"
    /\ UNCHANGED <<now, inbox, start_time, connect_ret, ex_tic, ex_out, pacer, ticdiff, packet, io, dup, sync>>

\* the embedder calls disconnect()
Disconnect ==
    /\ pc = "idle"
    /\ ~client.faulted
    /\ client' = disconnect(Fresh(client))
    /\ last' = StepOf([type |-> "disconnect"], client)
    /\ UNCHANGED <<now, inbox, pc, start_time, connect_ret, ex_tic, ex_out, pacer, ticdiff, packet, io, dup, sync>>

Next ==
    \/ \E p \in Packets : RunRecv(p)
    \/ RunBegin
    \/ RunEnd
    \/ Disconnect

Spec == Init /\ [][Next]_vars

---------------------------------------------------------------------------
(* Properties of the session *)

\* the step being taken is the receive loop parsing datagram p
Received(p) == pc = "recv" /\ last' = StepOf(p, client)

Slots == 0..(BACKUPTICS - 1)

\* C1: within a game session the tics handed to the simulation are the
\* server's tics 0, 1, 2, ... in this order, each one once: the k-th tic
\* handed over is numbered k-1, and the server tic numbers of the tics
\* handed over increase strictly.
C1_TicsOnceInOrder ==
    /\ \A k \in 1..Len(client.delivered) : client.delivered[k].seq = k - 1
    /\ \A j, k \in 1..Len(client.delivered) :
          j < k => client.delivered[j].cmd.tic < client.delivered[k].cmd.tic

\* C2: the stream handed to the simulation depends on the server's tics
\* alone, not on duplicates or on the order of arrival: what is handed over
\* as tic number n is the bundle the server produced for tic n.
C2_StreamIndependentOfArrival ==
    \A k \in 1..Len(client.delivered) :
        client.delivered[k].cmd = Bundle(client.delivered[k].seq)

\* the edges of the session state machine
SessionEdge(s, t) ==
    \/ s = "Disconnected" /\ t = "WaitingLaunch"
    \/ s = "WaitingLaunch" /\ t = "WaitingStart"
    \/ s = "WaitingStart" /\ t = "InGame"
    \/ t = "Disconnected"

\* C5: every step that changes the session state follows an edge of the
\* state machine; WaitingStart is entered only by a LAUNCH datagram and
\* InGame only by a GAMESTART datagram.
C5_SessionEdges ==
    [][client'.state # client.state =>
          /\ SessionEdge(client.state, client'.state)
          /\ (client'.state = "WaitingStart" => last'.pkt.type = "LAUNCH")
          /\ (client'.state = "InGame" => last'.pkt.type = "GAMESTART")]_vars

\* a LAUNCH that arrived during the game left the session in the game
C5_Witness ==
    /\ last.pkt.type = "LAUNCH"
    /\ last.state = "InGame"
    /\ client.state = "InGame"
    /\ Len(client.delivered) > 0

\* the settings the specification calls valid for a client
GameStartValid(c, settings) ==
    /\ settings.num_players <= NET_MAXPLAYERS
    /\ IF c.drone THEN settings.consoleplayer < 0
       ELSE 0 <= settings.consoleplayer /\ settings.consoleplayer < settings.num_players

\* C6: a GAMESTART received in WaitingStart is accepted exactly when its
\* settings are valid for the client; otherwise the client goes on in
\* WaitingStart with settings, rings and window start as they were.
C6_GameStartAcceptedIffValid ==
    [][\A p \in GameStartPackets :
          (Received(p) /\ client.state = "WaitingStart") =>
              IF GameStartValid(client, p.settings)
              THEN client'.state = "InGame"
              ELSE /\ client'.state = "WaitingStart"
                   /\ client'.settings = client.settings
                   /\ client'.has_settings = client.has_settings
                   /\ client'.recv_window = client.recv_window
                   /\ client'.send_queue = client.send_queue
                   /\ client'.recv_window_start = client.recv_window_start]_vars

\* C7: right after a GAMESTART was accepted the window starts at 0, both
\* rings hold no active slot and the stored settings are the datagram's.
C7_GameStartResets ==
    (last.pkt.type = "GAMESTART" /\ last.state = "WaitingStart" /\ client.state = "InGame") =>
        /\ client.recv_window_start = 0
        /\ \A i \in Slots : ~client.recv_window[i].active /\ ~client.send_queue[i].active
        /\ client.has_settings
        /\ client.settings = last.pkt.settings

\* C8: a GAMEDATA datagram received outside InGame changes nothing of the
\* receive side and sends no resend request.
C8_GameDataIgnoredOutsideGame ==
    [][\A p \in GameDataPackets :
          (Received(p) /\ client.state # "InGame") =>
              /\ client'.recv_window = client.recv_window
              /\ client'.need_acknowledge = client.need_acknowledge
              /\ client'.gamedata_recv_time = client.gamedata_recv_time
              /\ client'.last_latency = client.last_latency
              /\ client'.recv_window_start = client.recv_window_start
              /\ \A i \in 1..Len(client'.sent) :
                    client'.sent[i].type # "GAMEDATA_RESEND"]_vars

\* the lobby data the specification accepts from a client in state s
WaitingDataAccepted(c, w) ==
    /\ c.state \in {"WaitingLaunch", "WaitingStart"}
    /\ w.num_players <= w.max_players
    /\ w.max_players <= NET_MAXPLAYERS
    /\ w.ready_players <= w.num_players
    /\ (w.consoleplayer < 0) = c.drone

\* C9: a WAITING_DATA datagram that the specification does not accept
\* leaves the stored lobby data and the received flag as they were.
C9_WaitingDataOnlyInLobby ==
    [][\A p \in WaitingDataPackets :
          (Received(p) /\ ~WaitingDataAccepted(client, p.wait_data)) =>
              /\ client'.net_client_wait_data = client.net_client_wait_data
              /\ client'.net_client_received_wait_data
                    = client.net_client_received_wait_data]_vars

\* C13: no step of run(), whatever datagram it finds, and no disconnect()
\* takes the connection out of Disconnected.
C13_DisconnectedIsFinal ==
    [][client.connection_state = "Disconnected" =>
          client'.connection_state = "Disconnected"]_vars

\* run() was called on a joined client whose connection is Disconnected
C13_Witness ==
    /\ last.pkt.type = "run"
    /\ last.state = "Disconnected"
    /\ client.net_client_connected
    /\ client.connection_state = "Disconnected"

\* the step being taken is a call of disconnect()
DisconnectCalled == pc = "idle" /\ last' = StepOf([type |-> "disconnect"], client)

\* C14: disconnect() on a client that connected leaves the session
\* Disconnected and the connection Disconnected or DisconnectedSleep; on a
\* client that never connected it changes nothing.
C14_DisconnectShutsDown ==
    [][DisconnectCalled =>
          IF client.net_client_connected
          THEN /\ client'.state = "Disconnected"
               /\ client'.connection_state \in {"Disconnected", "DisconnectedSleep"}
          ELSE client' = Fresh(client)]_vars

\* disconnect() was called during the game
C14_Witness ==
    /\ last = StepOf([type |-> "disconnect"], [state |-> "InGame"])
    /\ client.state = "Disconnected"
    /\ client.connection_state = "Disconnected"

\* C15: whenever a public operation has returned with the connection
\* Disconnected or DisconnectedSleep, the session is Disconnected.
C15_DisconnectPropagates ==
    (pc = "idle" /\ ~client.faulted
       /\ client.connection_state \in {"Disconnected", "DisconnectedSleep"}) =>
        client.state = "Disconnected"

\* run() returned after the peer disconnected during the game
C15_Witness ==
    /\ pc = "idle"
    /\ last = StepOf([type |-> "run_tail"], [state |-> "InGame"])
    /\ client.connection_state = "Disconnected"
    /\ client.connection_peer_disconnect

\* C25: a GAMEDATA datagram that ends before the tics its header announces
\* is dropped as a whole: no receive slot is written, the clock controller
\* is not updated, no acknowledgement becomes owed, no resend request is
\* sent, and the client does not fault.
C25_TruncatedGameDataDropped ==
    [][\A p \in TruncatedGameDataPackets :
          Received(p) =>
              /\ client'.recv_window = client.recv_window
              /\ client'.last_latency = client.last_latency
              /\ client'.need_acknowledge = client.need_acknowledge
              /\ ~client'.faulted
              /\ \A i \in 1..Len(client'.sent) :
                    client'.sent[i].type # "GAMEDATA_RESEND"]_vars

\* the datagrams whose player count is above NET_MAXPLAYERS
TooManyPlayers ==
    {p \in GameStartPackets : p.settings.num_players > NET_MAXPLAYERS}
      \cup {p \in WaitingDataPackets : p.wait_data.num_players > NET_MAXPLAYERS}

\* C26: a GAMESTART or WAITING_DATA datagram announcing more than
\* NET_MAXPLAYERS players is decoded without a fault and rejected: session
\* state, settings and lobby data stay as they were.
C26_TooManyPlayersRejected ==
    [][\A p \in TooManyPlayers :
          Received(p) =>
              /\ ~client'.faulted
              /\ client'.state = client.state
              /\ client'.settings = client.settings
              /\ client'.net_client_wait_data = client.net_client_wait_data]_vars

\* the tics s below tic such that no tic of s .. tic-1 is held in the
\* receive window of c
GapStarts(c, tic) ==
    {s \in c.recv_window_start..(tic - 1) :
        \A v \in s..(tic - 1) : ~c.recv_window[v - c.recv_window_start].active}

ResendRequests(c) ==
    {i \in 1..Len(c.sent) : c.sent[i].type = "GAMEDATA_RESEND"}

\* C30: when a GAMEDATA whose first tic lies beyond recv_window_start is
\* stored in the game and the tics just before it are not held, exactly one
\* GAMEDATA_RESEND is sent, for the longest run of tics not held that ends
\* just before the datagram's first tic, and every slot asked for gets the
\* time of the request; when the tic just before is held, or the datagram
\* starts at recv_window_start, no request is sent.
C30_GapRequested ==
    [][\A p \in GameDataPackets :
          (Received(p) /\ client.state = "InGame") =>
              LET tic == p.cmds[1].tic
                  starts == GapStarts(client, tic)
              IN IF starts = {} THEN ResendRequests(client') = {}
                 ELSE LET s == CHOOSE v \in starts : \A w \in starts : v <= w
                      IN /\ Cardinality(ResendRequests(client')) = 1
                         /\ \A i \in ResendRequests(client') :
                               /\ client'.sent[i].start = s
                               /\ client'.sent[i].num_tics = tic - s
                         /\ \A v \in s..(tic - 1) :
                               client'.recv_window[v - client.recv_window_start]
                                   .resend_time = now]_vars

---------------------------------------------------------------------------
(* expand_tic_num on its own: every window start up to MaxExpand and every *)
(* tic number less than BACKUPTICS away from it.                           *)

\* the 8-bit sequence number the server writes for tic t
WireSeq(t) == t % 256

ExpandInit ==
    /\ \E start \in 0..MaxExpand :
          client = [NetClient_new(FALSE, "first") EXCEPT !.recv_window_start = start]
    /\ ex_tic \in 0..(MaxExpand + BACKUPTICS)
    /\ ex_tic - client.recv_window_start < BACKUPTICS
    /\ client.recv_window_start - ex_tic < BACKUPTICS
    /\ ex_out = 0
    /\ pacer = d_loop_statics
    /\ ticdiff = NoTicdiff
    /\ packet = NetPacket_new
    /\ io = NoIo
    /\ dup = NoDup
    /\ sync = NoSync
    /\ pc = "expand"
    /\ now = 0
    /\ inbox = <<>>
    /\ last = NoStep
    /\ start_time = 0
    /\ connect_ret = "none"

\* parse_game_data reads the sequence byte and expands it
Expand ==
    /\ pc = "expand"
    /\ ex_out' = expand_tic_num(client, AsU32(ReadI8(WireSeq(ex_tic))))
    /\ pc' = "expanded"
    /\ UNCHANGED <<client, now, inbox, last, start_time, connect_ret, ex_tic, pacer, ticdiff, packet, io, dup, sync>>

SpecExpand == ExpandInit /\ [][Expand]_vars

\* C4: expanding the wire sequence number of a tic less than 128 away from
\* the window start gives the tic number back.
C4_ExpandIsLeftInverse == pc = "expanded" => ex_out = ex_tic

---------------------------------------------------------------------------
(* connect(): the handshake of a new client, statement by statement.       *)
(* pc = "loop" when connect() is about to take a turn of its polling loop, *)
(* "sleep" while it sleeps after the turn, "leave" once the loop is left   *)
(* through its timeout, "returned" after connect() returned.  The loop     *)
(* polls every millisecond, so every instant of the clock sees a turn.     *)

\* the SYN the client sends
ClientSyn == [type |-> "SYN", protocol |-> "CHOCOLATE_DOOM_0"]

send_syn(c) == send_packet(c, ClientSyn)

\* connect() up to its polling loop
connect_begin(c, t) ==
    [connection_init_client(c) EXCEPT
        !.state = "Disconnected",
        !.reject_reason = "Unknown reason",
        !.net_client_connected = TRUE,
        !.net_client_received_wait_data = FALSE,
        !.last_send_time = t - SYN_INTERVAL]

\* the timeout test of the polling loop
connect_timed_out(start, t) == t - start > CONNECT_TIMEOUT

\* one turn of the polling loop at instant t, on the datagrams the
\* transport holds
connect_poll(c, pkts, start, t) ==
    LET c1 == IF t - c.last_send_time > SYN_INTERVAL
              THEN [send_syn(c) EXCEPT !.last_send_time = t]
              ELSE c
    IN IF connect_timed_out(start, t)
       THEN [c1 EXCEPT !.reject_reason = "No response from server"]
       ELSE run(c1, pkts, t)

\* connect() after its polling loop
connect_end(c) ==
    IF c.connection_state = "Connected"
    THEN [c EXCEPT !.reject_reason = NoReason, !.state = "WaitingLaunch"]
    ELSE shutdown(c)

ConnectInit ==
    /\ \E drone \in BOOLEAN, draft \in {"first", "last"} :
          client = NetClient_new(drone, draft)
    /\ now = 0
    /\ inbox = <<>>
    /\ last = NoStep
    /\ pc = "idle"
    /\ start_time = 0
    /\ connect_ret = "none"
    /\ ex_tic = 0
    /\ ex_out = 0
    /\ pacer = d_loop_statics
    /\ ticdiff = NoTicdiff
    /\ packet = NetPacket_new
    /\ io = NoIo
    /\ dup = NoDup
    /\ sync = NoSync

\* the embedder calls connect()
ConnectBegin ==
    /\ pc = "idle"
    /\ client' = connect_begin(Fresh(client), now)
    /\ start_time' = now
    /\ pc' = "loop"
    /\ UNCHANGED <<now, inbox, last, connect_ret, ex_tic, ex_out, pacer, ticdiff, packet, io, dup, sync>>

\* one turn of the polling loop; run() empties the transport only when it
\* gets to its receive loop
ConnectPoll ==
    /\ pc = "loop"
    /\ client.connection_state = "Connecting"
    /\ client' = connect_poll(Fresh(client), inbox, start_time, now)
    /\ inbox' = IF ~connect_timed_out(start_time, now) /\ run_polls(client)
                THEN <<>> ELSE inbox
    /\ pc' = IF connect_timed_out(start_time, now) THEN "leave" ELSE "sleep"
    /\ UNCHANGED <<now, last, start_time, connect_ret, ex_tic, ex_out, pacer, ticdiff, packet, io, dup, sync>>

\* the loop is over: connect() returns
ConnectLeave ==
    /\ \/ pc = "leave"
       \/ pc = "loop" /\ client.connection_state # "Connecting"
    /\ client' = connect_end(Fresh(client))
    /\ connect_ret' = IF client.connection_state = "Connected" THEN "true" ELSE "false"
    /\ pc' = "returned"
    /\ UNCHANGED <<now, inbox, last, start_time, ex_tic, ex_out, pacer, ticdiff, packet, io, dup, sync>>

\* the server answers the SYN the client has just sent
ServerReply(p) ==
    /\ pc = "sleep"
    /\ \E i \in 1..Len(client.sent) : client.sent[i].type = "SYN"
    /\ Len(inbox) < MaxInbox
    /\ inbox' = Append(inbox, p)
    /\ UNCHANGED <<client, now, last, pc, start_time, connect_ret, ex_tic, ex_out, pacer, ticdiff, packet, io, dup, sync>>

\* 100 ms pass while connect() sleeps between two polls
ConnectTick ==
    /\ pc = "sleep"
    /\ now < MaxConnectNow
    /\ now' = now + 1
    /\ pc' = "loop"
    /\ UNCHANGED <<client, inbox, last, start_time, connect_ret, ex_tic, ex_out, pacer, ticdiff, packet, io, dup, sync>>

ConnectNext ==
    \/ ConnectBegin
    \/ ConnectPoll
    \/ ConnectLeave
    \/ \E p \in SynPackets \cup RejectPackets : ServerReply(p)
    \/ ConnectTick

SpecConnect == ConnectInit /\ [][ConnectNext]_vars

\* the transport holds the server's SYN reply naming CHOCOLATE_DOOM_0
SynReplyArrived ==
    \E i \in 1..Len(inbox) :
        inbox[i].type = "SYN" /\ read_protocol(inbox[i]) = "ChocolateDoom0"

\* C10: when the server's SYN reply naming CHOCOLATE_DOOM_0 has arrived
\* while connect() was polling, connect() returns true with the connection
\* Connected, the session in WaitingLaunch and no reject reason.
C10_SynReplyConnects ==
    (pc = "returned" /\ SynReplyArrived) =>
        /\ connect_ret = "true"
        /\ client.connection_state = "Connected"
        /\ client.state = "WaitingLaunch"
        /\ client.reject_reason = NoReason

\* the first datagram the transport holds is the server's REJECTED
RejectArrived == inbox # <<>> /\ Head(inbox).type = "REJECTED"

\* C11: when the server's REJECTED has arrived while connect() was polling
\* in Connecting, connect() returns false with the connection Disconnected,
\* the session Disconnected and the packet's reason as the reject reason.
C11_RejectedEndsConnect ==
    (pc = "returned" /\ RejectArrived) =>
        /\ connect_ret = "false"
        /\ client.connection_state = "Disconnected"
        /\ client.state = "Disconnected"
        /\ client.reject_reason = Head(inbox).reason

\* C12: when nothing has arrived, connect() returns false after its
\* timeout with the connection Disconnected, the session Disconnected and
\* the reject reason "No response from server".
C12_ConnectTimesOut ==
    (pc = "returned" /\ inbox = <<>>) =>
        /\ connect_ret = "false"
        /\ client.connection_state = "Disconnected"
        /\ client.state = "Disconnected"
        /\ client.reject_reason = "No response from server"

---------------------------------------------------------------------------
(* The game under a fair-lossy network.  The server has produced the tics  *)
(* 0 .. MaxTic-1.  It transmits a tic the client has not passed yet, again *)
(* and again, and answers the resend requests the client sends; the        *)
(* network loses datagrams; the embedder calls run() again and again; the  *)
(* clock runs and slides once it reaches MaxNow (instants are only ever    *)
(* compared through differences).                                          *)

\* the client in the game: a joined player after LAUNCH and a valid GAMESTART
InGameClient(draft) ==
    parse_game_start(
        parse_launch(JoinedClient(FALSE, draft), [type |-> "LAUNCH", num_players |-> 2]),
        GameStart(2, 0, 1))

LiveInit ==
    /\ \E draft \in {"first", "last"} : client = InGameClient(draft)
    /\ now = SessionStart
    /\ inbox = <<>>
    /\ last = NoStep
    /\ pc = "idle"
    /\ start_time = 0
    /\ connect_ret = "none"
    /\ ex_tic = 0
    /\ ex_out = 0
    /\ pacer = d_loop_statics
    /\ ticdiff = NoTicdiff
    /\ packet = NetPacket_new
    /\ io = NoIo
    /\ dup = NoDup
    /\ sync = NoSync

\* the Instants of the client, one unit older
Older(c) ==
    [c EXCEPT
        !.gamedata_recv_time = Max(@ - 1, 0),
        !.last_send_time = Max(@ - 1, 0),
        !.recv_window = [i \in 0..(BACKUPTICS - 1) |->
                            [c.recv_window[i] EXCEPT !.resend_time = Max(@ - 1, 0)]],
        !.send_queue = [i \in 0..(BACKUPTICS - 1) |->
                            [c.send_queue[i] EXCEPT !.time = Max(@ - 1, 0)]]]

\* 100 ms pass between two calls of run()
LiveTick ==
    /\ pc = "idle"
    /\ IF now < MaxNow
       THEN now' = now + 1 /\ client' = client
       ELSE now' = now /\ client' = Older(client)
    /\ UNCHANGED <<inbox, last, pc, start_time, connect_ret, ex_tic, ex_out, pacer, ticdiff, packet, io, dup, sync>>

\* the server transmits tic t, which the client has not passed yet
LiveSend(t) ==
    /\ pc = "idle"
    /\ client.recv_window_start <= t
    /\ Len(inbox) < MaxInbox
    /\ inbox' = Append(inbox, GameData(t, 1))
    /\ UNCHANGED <<client, now, last, pc, start_time, connect_ret, ex_tic, ex_out, pacer, ticdiff, packet, io, dup, sync>>

\* the server answers a resend request of the client's latest run() with
\* the tics of the request it has produced
LiveAnswer ==
    /\ pc = "idle"
    /\ Len(inbox) < MaxInbox
    /\ \E i \in 1..Len(client.sent) :
          LET r == client.sent[i] IN
          /\ r.type = "GAMEDATA_RESEND"
          /\ 0 <= r.start /\ r.start < MaxTic /\ r.num_tics > 0
          /\ inbox' = Append(inbox, GameData(r.start, Min(r.num_tics, MaxTic - r.start)))
    /\ UNCHANGED <<client, now, last, pc, start_time, connect_ret, ex_tic, ex_out, pacer, ticdiff, packet, io, dup, sync>>

\* the network loses the oldest datagram under way
LiveLose ==
    /\ pc = "idle"
    /\ inbox # <<>>
    /\ inbox' = Tail(inbox)
    /\ UNCHANGED <<client, now, last, pc, start_time, connect_ret, ex_tic, ex_out, pacer, ticdiff, packet, io, dup, sync>>

\* the embedder calls run()
LiveCall ==
    /\ pc = "idle"
    /\ ~client.faulted
    /\ pc' = "run"
    /\ UNCHANGED <<client, now, inbox, last, start_time, connect_ret, ex_tic, ex_out, pacer, ticdiff, packet, io, dup, sync>>

\* run() takes every datagram that has arrived, and returns
LiveRun ==
    /\ pc = "run"
    /\ client' = run(Fresh(client), inbox, now)
    /\ inbox' = <<>>
    /\ last' = StepOf([type |-> "run"], client)
    /\ pc' = "idle"
    /\ UNCHANGED <<now, start_time, connect_ret, ex_tic, ex_out, pacer, ticdiff, packet, io, dup, sync>>

\* run() is called while a datagram that carries tic t has arrived
LiveRecv(t) ==
    /\ \E i \in 1..Len(inbox) : \E k \in 1..Len(inbox[i].cmds) : inbox[i].cmds[k] = Bundle(t)
    /\ LiveCall

\* a call of run() returns
RunReturns == pc = "run" /\ pc' = "idle"

LiveNext ==
    \/ LiveTick
    \/ \E t \in 0..(MaxTic - 1) : LiveSend(t)
    \/ LiveAnswer
    \/ LiveLose
    \/ LiveCall
    \/ LiveRun

\* run() is called again and again, returns every time, and the clock
\* runs; a tic the server goes on transmitting is received in the end, and
\* so is an answer to resend requests the client goes on sending
LiveFairness ==
    /\ SF_vars(LiveCall)
    /\ WF_pc(RunReturns)
    /\ SF_vars(LiveTick)
    /\ SF_vars(LiveAnswer)
    /\ \A t \in 0..(MaxTic - 1) : SF_vars(LiveSend(t)) /\ SF_vars(LiveRecv(t))

SpecLive == LiveInit /\ [][LiveNext]_vars /\ LiveFairness

\* the simulation has been handed the server's tic t
HandedOver(t) ==
    \E k \in 1..Len(client.delivered) : client.delivered[k].cmd = Bundle(t)

\* C3: every tic the server has produced is handed to the simulation in
\* the end.
C3_EveryTicDelivered == <>(\A t \in 0..(MaxTic - 1) : HandedOver(t))

\* the datagrams of the given type in a sequence of datagrams
OfType(seq, type) == {i \in 1..Len(seq) : seq[i].type = type}

\* C18: a call of run() sends a GAMEDATA_ACK only when need_acknowledge was
\* set and more than ACK_TIMEOUT has passed since the last GAMEDATA; the ack
\* carries the low byte of recv_window_start and clears need_acknowledge.
\* need_acknowledge is set only by a call that received GAMEDATA and cleared
\* only by one that sent a GAMEDATA_ACK or a GAMEDATA.
C18_AckPolicy ==
    [][IF RunReturns
       THEN /\ OfType(client'.sent, "GAMEDATA_ACK") # {} =>
                  /\ client.need_acknowledge
                  /\ now - client.gamedata_recv_time > ACK_TIMEOUT
                  /\ Cardinality(OfType(client'.sent, "GAMEDATA_ACK")) = 1
                  /\ \A i \in OfType(client'.sent, "GAMEDATA_ACK") :
                        client'.sent[i].ack = client'.recv_window_start % 256
                  /\ ~client'.need_acknowledge
            /\ (~client.need_acknowledge /\ client'.need_acknowledge) =>
                  OfType(inbox, "GAMEDATA") # {}
            /\ (client.need_acknowledge /\ ~client'.need_acknowledge) =>
                  OfType(client'.sent, "GAMEDATA_ACK") \cup OfType(client'.sent, "GAMEDATA") # {}
       ELSE client'.need_acknowledge = client.need_acknowledge]_vars

\* a call of run() has sent an acknowledgement after the window moved
C18_Witness ==
    /\ pc = "idle"
    /\ OfType(client.sent, "GAMEDATA_ACK") # {}
    /\ client.recv_window_start > 0
    /\ ~client.need_acknowledge

\* the resend request r asks for tic v
Covers(r, v) ==
    r.type = "GAMEDATA_RESEND" /\ r.start <= v /\ v < r.start + r.num_tics

\* the requests of the datagrams pkts that ask for tic v
RequestsFor(pkts, v) == {i \in 1..Len(pkts) : Covers(pkts[i], v)}

\* C31: two resend requests that cover the same missing tic are never sent
\* less than RESEND_TIMEOUT apart, whether the gap scan of parse_game_data
\* or the sweep of check_resends sends them: one call of run() asks for a
\* tic at most once, and not before RESEND_TIMEOUT has passed since the
\* request recorded on the tic's slot (a time of 0 is no request).
C31_RequestsSpaced ==
    [][RunReturns =>
          \A v \in 0..(MaxTic + BACKUPTICS) :
              LET asked == RequestsFor(client'.sent, v)
                  index == v - client.recv_window_start
              IN /\ Cardinality(asked) <= 1
                 /\ (asked # {} /\ InRing(index)
                       /\ client.recv_window[index].resend_time > 0)
                      => now - client.recv_window[index].resend_time >= RESEND_TIMEOUT]_vars

\* the send slot of tic t holds tic t
valid_send_slot(c, t) ==
    c.send_queue[t % BACKUPTICS].active /\ c.send_queue[t % BACKUPTICS].seq = t

\* C38: the clock controller is updated for a received tic t only when the
\* send slot t mod BACKUPTICS is valid (active, with seq = t): a call of
\* run() whose datagrams carry no tic with a valid send slot leaves
\* last_latency as it was.
C38_ClockNeedsValidSlot ==
    [][RunReturns =>
          (client'.last_latency # client.last_latency
              => \E t \in 0..(MaxTic + BACKUPTICS) : valid_send_slot(client, t))]_vars

\* C40: the receive-ring slot at offset i always corresponds to the
\* absolute tic recv_window_start + i: an active slot holds the bundle of
\* that tic, however parse_game_data has filled the ring and
\* advance_window has shifted it.
C40_SlotIsTic ==
    \A i \in 0..(BACKUPTICS - 1) :
        client.recv_window[i].active
            => client.recv_window[i].cmd.tic = client.recv_window_start + i

---------------------------------------------------------------------------
(* The send ring: the embedder hands tics to send_ticcmd and the server    *)
(* asks for retransmissions.  The client is in the game; its settings      *)
(* carry extratics 0 .. MaxExtratics; the build has overflow checks or     *)
(* not.                                                                    *)

\* the tics 0 .. MaxSendTic and their neighbours one ring length later
MaxSendTic == 2

\* largest extratics of the game settings
MaxExtratics == 1

\* tic numbers handed to send_ticcmd and asked for by the server: the first
\* ones, and the ones that share their slots after the ring wrapped
SendTics == (0..MaxSendTic) \cup ((BACKUPTICS - 1)..(BACKUPTICS + MaxSendTic))

\* the command the simulation builds for tic t
TicCmdOf(t) == [TicCmd_default EXCEPT !.angleturn = t + 1]

\* GAMEDATA_RESEND {start, num_tics}; the count is the wire byte, 255 is -1
ResendPackets ==
    {[type |-> "GAMEDATA_RESEND", start |-> s, num_tics |-> n] :
        s \in SendTics, n \in (0..(MaxSendTic + 1)) \cup {255}}

SendInit ==
    /\ \E draft \in {"first", "last"}, e \in 0..MaxExtratics, oc \in BOOLEAN :
          client = [InGameClient(draft) EXCEPT !.settings.extratics = e,
                                               !.overflow_checks = oc]
    /\ now = SessionStart
    /\ inbox = <<>>
    /\ last = NoStep
    /\ pc = "idle"
    /\ start_time = 0
    /\ connect_ret = "none"
    /\ ex_tic = 0
    /\ ex_out = 0
    /\ pacer = d_loop_statics
    /\ ticdiff = NoTicdiff
    /\ packet = NetPacket_new
    /\ io = NoIo
    /\ dup = NoDup
    /\ sync = NoSync

\* the embedder calls send_ticcmd for tic t
SendTicCmd(t) ==
    /\ ~client.faulted /\ ~client.stuck
    /\ client' = send_ticcmd(Fresh(client), TicCmdOf(t), t, now)
    /\ last' = StepOf([type |-> "send_ticcmd", tic |-> t], client)
    /\ UNCHANGED <<now, inbox, pc, start_time, connect_ret, ex_tic, ex_out, pacer, ticdiff, packet, io, dup, sync>>

\* the receive loop of run() finds the server's resend request p
SendRecv(p) ==
    /\ ~client.faulted /\ ~client.stuck
    /\ client' = recv_one(Fresh(client), p, now)
    /\ last' = StepOf(p, client)
    /\ UNCHANGED <<now, inbox, pc, start_time, connect_ret, ex_tic, ex_out, pacer, ticdiff, packet, io, dup, sync>>

SendNext ==
    \/ \E t \in SendTics : SendTicCmd(t)
    \/ \E p \in ResendPackets : SendRecv(p)

SpecSend == SendInit /\ [][SendNext]_vars

\* the step being taken is send_ticcmd for tic t
SentTicCmd(t) == last' = StepOf([type |-> "send_ticcmd", tic |-> t], client)

\* C16: send_ticcmd for tic t stores the tic in slot t mod 128, leaves the
\* other slots alone and transmits one GAMEDATA with the tics
\* max(0, t - extratics) .. t.
C16_SendTicCmdStoresAndSends ==
    [][\A t \in SendTics :
          SentTicCmd(t) =>
              LET first == Max(0, t - client.settings.extratics)
                  n == t - first + 1
              IN /\ client'.send_queue[t % BACKUPTICS].active
                 /\ client'.send_queue[t % BACKUPTICS].seq = t
                 /\ \A i \in Slots \ {t % BACKUPTICS} :
                       client'.send_queue[i] = client.send_queue[i]
                 /\ Len(client'.sent) = 1
                 /\ client'.sent[1].type = "GAMEDATA"
                 /\ client'.sent[1].seq = first % 256
                 /\ client'.sent[1].num_tics = n
                 /\ client'.sent[1].cmds =
                       [k \in 1..n |->
                           client'.send_queue[(first + k - 1) % BACKUPTICS].cmd]]_vars

\* the step being taken is the handling of the resend request p
ResendReceived(p) == last' = StepOf(p, client)

\* C17: the handling of a resend request returns; it transmits at most one
\* GAMEDATA, from the first to the last requested tic with a valid send
\* slot, and nothing when no requested tic has one.
C17_ResendRequestAnswered ==
    [][\A p \in ResendPackets :
          ResendReceived(p) =>
              LET wanted == {v \in p.start..(p.start + ReadI8(p.num_tics) - 1) :
                                v \in valid_tics(client)}
                  s == CHOOSE v \in wanted : \A w \in wanted : v <= w
                  e == CHOOSE v \in wanted : \A w \in wanted : w <= v
              IN /\ ~client'.faulted
                 /\ ~client'.stuck
                 /\ \/ client'.sent = <<>>
                    \/ /\ wanted # {}
                       /\ Len(client'.sent) = 1
                       /\ client'.sent[1].type = "GAMEDATA"
                       /\ client'.sent[1].seq = s % 256
                       /\ client'.sent[1].num_tics = e - s + 1]_vars

\* the command rebuilt from the zero command by applying the stored diffs
\* of tics 0 .. k in order, each with the apply_ticcmd_diff that reads the
\* representation calculate_ticcmd_diff wrote
RECURSIVE reconstruct(_, _)
reconstruct(c, k) ==
    LET base == IF k = 0 THEN TicCmd_default ELSE reconstruct(c, k - 1)
    IN apply_ticcmd_diff(IF c.draft = "first" THEN "last" ELSE "first",
                         base, c.send_queue[k % BACKUPTICS].cmd, base)

\* C27: after send_ticcmd(cmd, t) the last local tic command is cmd, and
\* when the slots of tics 0 .. t are all held, applying their diffs in
\* order to the zero command gives the command of tic t.
C27_LastTicCmdFollows ==
    [][\A t \in SendTics :
          SentTicCmd(t) =>
              /\ client'.last_ticcmd = TicCmdOf(t)
              /\ (\A k \in 0..t : /\ client'.send_queue[k % BACKUPTICS].active
                                  /\ client'.send_queue[k % BACKUPTICS].seq = k)
                    => reconstruct(client', t) = TicCmdOf(t)]_vars

---------------------------------------------------------------------------
(* The send ring on an established link.  NetConnection::init_client and
   NetConnection::run have empty bodies in net_client.rs; here the
   connection layer has marked the link connected, so that send_tics gets
   past its first test and builds the datagram. *)

connection_established(c) == [c EXCEPT !.connection_connected = TRUE]

TransmitInit ==
    /\ \E draft \in {"first", "last"}, e \in 0..MaxExtratics, oc \in BOOLEAN :
          client = connection_established(
                      [InGameClient(draft) EXCEPT !.settings.extratics = e,
                                                  !.overflow_checks = oc])
    /\ now = SessionStart
    /\ inbox = <<>>
    /\ last = NoStep
    /\ pc = "idle"
    /\ start_time = 0
    /\ connect_ret = "none"
    /\ ex_tic = 0
    /\ ex_out = 0
    /\ pacer = d_loop_statics
    /\ ticdiff = NoTicdiff
    /\ packet = NetPacket_new
    /\ io = NoIo
    /\ dup = NoDup
    /\ sync = NoSync

TransmitNext ==
    \/ \E t \in SendTics : SendTicCmd(t)
    \/ \E p \in ResendPackets : SendRecv(p)

SpecTransmit == TransmitInit /\ [][TransmitNext]_vars

----------------------------------------------------------------------------
(* The tic pacer of d_loop.rs *)

\* system clock readings of the model, in units of FRACUNIT milliseconds
MaxClock == 90

\* clock readings the program may start at
MaxClockStart == 60

\* the accessor the pacer asks whether the session is online
is_connected(c) == c.connection_state = "Connected"

\* get_adjusted_time at clock reading v: the milliseconds are divided
\* by FRACUNIT before they are scaled to tics (OFFSETMS is never written)
get_adjusted_time(v) == (v * TICRATE) \div 1000

\* build_new_tic on the pair s = [d, c]: the pair after it and whether a
\* tic was built
build_new_tic(s) ==
    LET d == s.d
        c == s.c
        gameticdiv == d.GAMETIC \div TICDUP
        bail == [d |-> d, c |-> c, built |-> FALSE, pumped |-> TRUE]
    IN IF DRONE THEN bail
       ELSE IF NEW_SYNC /\ ~is_connected(c) /\ d.MAKETIC - gameticdiv > 2 THEN bail
       ELSE IF NEW_SYNC /\ d.MAKETIC - gameticdiv > 8 THEN bail
       ELSE IF ~NEW_SYNC /\ d.MAKETIC - gameticdiv >= 5 THEN bail
       ELSE LET c1 == IF is_connected(c)
                      THEN send_ticcmd(c, TicCmdOf(d.MAKETIC), d.MAKETIC, now)
                      ELSE c
            IN IF c1.faulted
               THEN [d |-> d, c |-> c1, built |-> FALSE, pumped |-> TRUE]
               ELSE [d |-> [d EXCEPT !.TICDATA[d.MAKETIC % BACKUPTICS] = TRUE,
                                     !.MAKETIC = d.MAKETIC + 1],
                     c |-> c1, built |-> TRUE, pumped |-> TRUE]

\* the loop "for _ in 0..newtics" of net_update
RECURSIVE build_new_tics(_, _)
build_new_tics(s, newtics) ==
    IF newtics <= 0 THEN s
    ELSE CHOOSE out \in
           { IF r.built THEN build_new_tics([d |-> r.d, c |-> r.c], newtics - 1)
             ELSE [d |-> r.d, c |-> r.c] : r \in {build_new_tic(s)} } : TRUE

\* net_update after client.run() returned the client c1
check_time(d, c1) ==
    LET nowtime == get_adjusted_time(d.clock) \div TICDUP
        newtics == nowtime - d.LASTTIME
        d1 == [d EXCEPT !.LASTTIME = nowtime]
    IN IF c1.faulted THEN [d |-> d, c |-> c1]
       ELSE IF d1.SKIPTICS <= newtics
            THEN build_new_tics([d |-> [d1 EXCEPT !.SKIPTICS = 0], c |-> c1],
                                newtics - d1.SKIPTICS)
            ELSE [d |-> [d1 EXCEPT !.SKIPTICS = d1.SKIPTICS - newtics], c |-> c1]

\* net_update on the pair s; no datagram is waiting
net_update(s) ==
    CHOOSE out \in {check_time(s.d, c1) : c1 \in {run(s.c, <<>>, now)}} : TRUE

get_low_tic(d, c) ==
    IF is_connected(c) /\ (DRONE \/ d.RECVTIC < d.MAKETIC) THEN d.RECVTIC
    ELSE d.MAKETIC

players_in_game(d, c) ==
    IF is_connected(c) THEN d.LOCAL_PLAYERINGAME ELSE ~DRONE

\* the wait loop always left at once
wait_for_nothing(d, c) == FALSE

\* the condition of the wait loop of try_run_tics
wait_for_tics(d, c) ==
    ~players_in_game(d, c) \/ d.lowtic < d.GAMETIC \div TICDUP + d.counts

\* the stall escape of the wait loop at clock reading v
stalled(d, v) ==
    get_adjusted_time(v) \div TICDUP - d.enter_tic >= MAX_NETGAME_STALL_TICS

PacerInit ==
    /\ \E draft \in {"first", "last"} :
          client \in {NetClient_new(FALSE, draft), JoinedClient(FALSE, draft),
                      JoinedClient(TRUE, draft), InGameClient(draft)}
    /\ \E v \in 0..MaxClockStart : pacer = [d_loop_statics EXCEPT !.clock = v]
    /\ ticdiff = NoTicdiff
    /\ packet = NetPacket_new
    /\ io = NoIo
    /\ dup = NoDup
    /\ sync = NoSync
    /\ now = SessionStart
    /\ inbox = <<>>
    /\ last = NoStep
    /\ pc = "idle"
    /\ start_time = 0
    /\ connect_ret = "none"
    /\ ex_tic = 0
    /\ ex_out = 0

\* the outcome of a step that ran net_update: a panic inside the client
\* ends the program
AfterNetUpdate(r, next_pc) ==
    /\ client' = r.c
    /\ pc' = IF r.c.faulted THEN "panicked" ELSE next_pc

\* the system clock advances while the program is between calls or asleep;
\* a sleep of one millisecond sees the clock advance at most once
Tick ==
    /\ pc \in {"idle", "sleep"}
    /\ pacer.clock < MaxClock
    /\ pacer' = [pacer EXCEPT !.clock = pacer.clock + 1]
    /\ pc' = IF pc = "sleep" THEN "slept" ELSE pc
    /\ UNCHANGED <<client, now, inbox, last, start_time, connect_ret,
                   ex_tic, ex_out, ticdiff, packet, io, dup, sync>>

\* the embedder calls net_update
NetUpdate ==
    /\ pc = "idle"
    /\ \E r \in {net_update([d |-> pacer, c |-> Fresh(client)])} :
          /\ pacer' = r.d
          /\ AfterNetUpdate(r, "idle")
    /\ UNCHANGED <<now, inbox, last, start_time, connect_ret, ex_tic, ex_out, ticdiff, packet, io, dup, sync>>

\* try_run_tics up to the wait loop
TryRunTics ==
    /\ pc = "idle"
    /\ \E r \in {net_update([d |-> pacer, c |-> Fresh(client)])} :
       LET enter_tic == get_adjusted_time(pacer.clock) \div TICDUP
           lowtic == get_low_tic(r.d, r.c)
           availabletics == lowtic - r.d.GAMETIC \div TICDUP
       IN /\ pacer' = IF r.c.faulted THEN r.d
                      ELSE [r.d EXCEPT !.entered = pacer.clock,
                                       !.enter_tic = enter_tic,
                                       !.lowtic = lowtic,
                                       !.OLDENTERTICS = enter_tic,
                                       !.counts = IF availabletics > 1
                                                  THEN availabletics ELSE 1]
          /\ AfterNetUpdate(r, "wait")
    /\ UNCHANGED <<now, inbox, last, start_time, connect_ret, ex_tic, ex_out, ticdiff, packet, io, dup, sync>>

\* one test of the wait loop's condition and, when it holds, one pass
\* through the loop's body
Wait ==
    /\ pc = "wait"
    /\ IF ~wait_for_tics(pacer, client)
       THEN /\ pc' = "run"
            /\ UNCHANGED <<client, pacer, ticdiff, packet, io>>
       ELSE \E r \in {net_update([d |-> pacer, c |-> Fresh(client)])} :
            LET lowtic == get_low_tic(r.d, r.c)
                d1 == [r.d EXCEPT !.lowtic = lowtic]
            IN IF r.c.faulted
               THEN /\ pacer' = r.d
                    /\ AfterNetUpdate(r, "wait")
               ELSE IF lowtic < d1.GAMETIC \div TICDUP
               THEN /\ pacer' = [d1 EXCEPT !.panic = "TryRunTics: lowtic < gametic"]
                    /\ client' = r.c
                    /\ pc' = "panicked"
               ELSE IF lowtic < d1.GAMETIC \div TICDUP + d1.counts
               THEN /\ pacer' = d1
                    /\ client' = r.c
                    /\ pc' = IF stalled(d1, d1.clock) THEN "idle" ELSE "sleep"
               ELSE /\ pacer' = d1
                    /\ client' = r.c
                    /\ pc' = "wait"
    /\ UNCHANGED <<now, inbox, last, start_time, connect_ret, ex_tic, ex_out, ticdiff, packet, io, dup, sync>>

\* the sleep of one millisecond ends
Wake ==
    /\ pc \in {"sleep", "slept"}
    /\ pc' = "wait"
    /\ UNCHANGED <<client, now, inbox, last, start_time, connect_ret,
                   ex_tic, ex_out, pacer, ticdiff, packet, io, dup, sync>>

\* one test of "counts > 0" and, when it holds, one pass through the
\* body of the loop that runs the tics (TICDUP is 1: one tic per pass)
RunTic ==
    /\ pc = "run"
    /\ IF pacer.counts <= 0 \/ ~players_in_game(pacer, client)
       THEN /\ pc' = "idle"
            /\ UNCHANGED <<client, pacer, ticdiff, packet, io>>
       ELSE IF pacer.GAMETIC \div TICDUP > pacer.lowtic
       THEN /\ pacer' = [pacer EXCEPT !.panic = "gametic>lowtic"]
            /\ pc' = "panicked"
            /\ UNCHANGED client
       ELSE LET set == pacer.TICDATA[(pacer.GAMETIC \div TICDUP) % BACKUPTICS]
                d1 == [pacer EXCEPT !.LOCAL_PLAYERINGAME = set,
                                    !.GAMETIC = pacer.GAMETIC + 1]
            IN \E r \in {net_update([d |-> d1, c |-> Fresh(client)])} :
               /\ pacer' = IF r.c.faulted THEN r.d
                           ELSE [r.d EXCEPT !.counts = r.d.counts - 1]
               /\ AfterNetUpdate(r, "run")
    /\ UNCHANGED <<now, inbox, last, start_time, connect_ret, ex_tic, ex_out, ticdiff, packet, io, dup, sync>>

PacerNext == Tick \/ NetUpdate \/ TryRunTics \/ Wait \/ Wake \/ RunTic

SpecPacer == PacerInit /\ [][PacerNext]_vars

\* C19: in every state of the pacer, online or offline, the counters are
\* ordered game_tic / ticdup <= low_tic <= make_tic, and neither fatal
\* check of try_run_tics ("TryRunTics: lowtic < gametic", "gametic>lowtic")
\* has fired
C19_PacerOrder ==
    /\ pacer.GAMETIC \div TICDUP <= get_low_tic(pacer, client)
    /\ get_low_tic(pacer, client) <= pacer.MAKETIC
    /\ pacer.panic = "none"

\* tics have been run and the game has caught up with the lowest tic
C19_Witness ==
    /\ pc = "run"
    /\ pacer.GAMETIC >= 2
    /\ pacer.GAMETIC \div TICDUP = get_low_tic(pacer, client)

\* the tics of 1/TICRATE s that fit in units clock units of FRACUNIT ms
wall_tics(units) == (units * FRACUNIT * TICRATE) \div 1000

\* the clock has advanced k times since try_run_tics was called: more
\* than k - 1 clock units have passed
SinceEntered == pacer.clock - pacer.entered

\* C20: online with a silent server, no step inside try_run_tics panics,
\* runs a tic or changes game_tic, and the wait loop is left within
\* MAX_NETGAME_STALL_TICS tics of wall-clock time
C20_StallEscape ==
    [][is_connected(client) /\ pc \in {"wait", "sleep", "slept", "run"}
          => /\ pc' # "panicked"
             /\ pacer'.GAMETIC = pacer.GAMETIC
             /\ pc' \in {"wait", "sleep", "slept"} /\ SinceEntered' >= 1
                   => wall_tics(SinceEntered' - 1) <= MAX_NETGAME_STALL_TICS]_vars

\* C29: a client in drone mode produces no local input: none of its
\* send-ring slots is ever written and it transmits no GAMEDATA, whether
\* run() or the pacer's build_new_tic is at work.
C29_DroneSendsNothing ==
    client.drone =>
        /\ \A i \in 0..(BACKUPTICS - 1) : client.send_queue[i] = EmptySendSlot
        /\ \A i \in 1..Len(client.sent) : client.sent[i].type # "GAMEDATA"

\* C39: whenever the pacer hands a tic it has built to send_ticcmd, the
\* settings are present: send_ticcmd is never invoked for a client that is
\* connected but not yet InGame, and building a tic never faults on
\* missing settings.
C39_SettingsBeforeSend ==
    /\ ~client.faulted
    /\ \A i \in 0..(BACKUPTICS - 1) :
          client.send_queue[i].active
              => client.has_settings /\ client.state = "InGame"

----------------------------------------------------------------------------
(* Tic command diffs: a diff is computed from a base and a current command *)
(* and applied to the base                                                 *)

\* fields of a command that differ from TicCmd::default() at most
MaxFields == 2

\* the fields of TicCmd
TicCmdFields == DOMAIN TicCmd_default

\* the commands of the model
TicCmds ==
    {t \in [TicCmdFields -> {0, 1}] :
        Cardinality({f \in TicCmdFields : t[f] # 0}) <= MaxFields}

DiffInit ==
    /\ \E calculate \in {"first", "last"}, apply \in {"first", "last"} :
       \E base \in TicCmds, cur \in TicCmds :
          ticdiff = [NoTicdiff EXCEPT !.calculate = calculate, !.apply = apply,
                                      !.base = base, !.cur = cur]
    /\ pc = "calculate"
    /\ client = NetClient_new(FALSE, "first")
    /\ now = 0
    /\ inbox = <<>>
    /\ last = NoStep
    /\ start_time = 0
    /\ connect_ret = "none"
    /\ ex_tic = 0
    /\ ex_out = 0
    /\ pacer = d_loop_statics
    /\ packet = NetPacket_new
    /\ io = NoIo
    /\ dup = NoDup
    /\ sync = NoSync

\* calculate_ticcmd_diff(cur) with last_ticcmd = base, into a default diff
Calculate ==
    /\ pc = "calculate"
    /\ ticdiff' = [ticdiff EXCEPT !.diff =
                      calculate_ticcmd_diff(ticdiff.calculate, ticdiff.base,
                                            ticdiff.cur, NetTicdiff_default)]
    /\ pc' = "apply"
    /\ UNCHANGED <<client, now, inbox, last, start_time, connect_ret, ex_tic,
                   ex_out, pacer, packet, io, dup, sync>>

\* apply_ticcmd_diff(base, diff, result) with result a default command, as
\* expand_full_ticcmd calls it
Apply ==
    /\ pc = "apply"
    /\ ticdiff' = [ticdiff EXCEPT !.result =
                      apply_ticcmd_diff(ticdiff.apply, ticdiff.base,
                                        ticdiff.diff, TicCmd_default)]
    /\ pc' = "applied"
    /\ UNCHANGED <<client, now, inbox, last, start_time, connect_ret, ex_tic,
                   ex_out, pacer, packet, io, dup, sync>>

DiffNext == Calculate \/ Apply

SpecDiff == DiffInit /\ [][DiffNext]_vars

\* cur with the edge-triggered fields zeroed whose bit is not in mask
canonicalize(cur, mask) ==
    [cur EXCEPT !.chatchar = IF NET_TICDIFF_CHATCHAR \in mask THEN @ ELSE 0,
                !.arti = IF NET_TICDIFF_RAVEN \in mask THEN @ ELSE 0,
                !.inventory = IF NET_TICDIFF_STRIFE \in mask THEN @ ELSE 0]

\* the mask the claim describes for (base, cur)
MaskOf(base, cur) ==
    {b \in {NET_TICDIFF_FORWARD, NET_TICDIFF_SIDE, NET_TICDIFF_TURN,
            NET_TICDIFF_BUTTONS, NET_TICDIFF_CONSISTANCY, NET_TICDIFF_CHATCHAR,
            NET_TICDIFF_RAVEN, NET_TICDIFF_STRIFE} :
        \/ b = NET_TICDIFF_FORWARD /\ base.forwardmove # cur.forwardmove
        \/ b = NET_TICDIFF_SIDE /\ base.sidemove # cur.sidemove
        \/ b = NET_TICDIFF_TURN /\ base.angleturn # cur.angleturn
        \/ b = NET_TICDIFF_BUTTONS /\ base.buttons # cur.buttons
        \/ b = NET_TICDIFF_CONSISTANCY /\ base.consistancy # cur.consistancy
        \/ b = NET_TICDIFF_CHATCHAR /\ cur.chatchar # 0
        \/ b = NET_TICDIFF_RAVEN /\ (base.lookfly # cur.lookfly \/ cur.arti # 0)
        \/ b = NET_TICDIFF_STRIFE
              /\ (base.buttons2 # cur.buttons2 \/ cur.inventory # 0)}

----------------------------------------------------------------------------
(* NetPacket (net_packet.rs): data is the byte vector, pos the read        *)
(* cursor.  A string is the sequence of its code points.                   *)

\* write calls made on one packet
MaxWrites == 1

\* value.to_be_bytes() for a value of `width` bytes
to_be_bytes(value, width) ==
    [i \in 1..width |-> (value \div (256 ^ (width - i))) % 256]

\* u16::from_le_bytes
u16_from_le_bytes(bytes) == bytes[2] * 256 + bytes[1]

\* u16::from_be_bytes
u16_from_be_bytes(bytes) == bytes[1] * 256 + bytes[2]

\* u32::from_be_bytes, as the signed integer with the same bits
u32_from_be_bytes(bytes) ==
    ReadI8(bytes[1]) * 16777216 + bytes[2] * 65536 + bytes[3] * 256 + bytes[4]

\* str::as_bytes: the UTF-8 encoding (code points below U+0800)
RECURSIVE as_bytes(_)
as_bytes(string) ==
    IF string = <<>> THEN <<>>
    ELSE LET ch == Head(string)
         IN (IF ch < 128 THEN <<ch>>
             ELSE <<192 + (ch \div 64), 128 + (ch % 64)>>)
            \o as_bytes(Tail(string))

\* String::from_utf8_lossy for bytes outside 0xE0 .. 0xF4: an ASCII byte
\* or a well-formed two-byte sequence is its code point, every other byte
\* becomes U+FFFD
RECURSIVE from_utf8_lossy(_)
from_utf8_lossy(bytes) ==
    IF bytes = <<>> THEN <<>>
    ELSE LET b == Head(bytes)
         IN IF b < 128 THEN <<b>> \o from_utf8_lossy(Tail(bytes))
            ELSE IF b >= 194 /\ b <= 223 /\ Len(bytes) >= 2
                       /\ bytes[2] >= 128 /\ bytes[2] <= 191
            THEN <<(b - 192) * 64 + (bytes[2] - 128)>>
                    \o from_utf8_lossy(Tail(Tail(bytes)))
            ELSE <<65533>> \o from_utf8_lossy(Tail(bytes))

\* char::is_ascii_graphic() || char::is_whitespace()
is_printable(ch) ==
    \/ ch >= 33 /\ ch <= 126
    \/ ch \in {9, 10, 11, 12, 13, 32, 133, 160}

write_u8(p, value) == [p EXCEPT !.data = Append(@, value)]

write_i8(p, value) == [p EXCEPT !.data = Append(@, value % 256)]

write_u16(p, value) == [p EXCEPT !.data = @ \o to_be_bytes(value, 2)]

write_i16(p, value) == [p EXCEPT !.data = @ \o to_be_bytes(value, 2)]

write_u32(p, value) == [p EXCEPT !.data = @ \o to_be_bytes(value, 4)]

write_i32(p, value) == [p EXCEPT !.data = @ \o to_be_bytes(value, 4)]

write_blob(p, buf) == [p EXCEPT !.data = @ \o buf]

write_string(p, string) ==
    [p EXCEPT !.data = @ \o SelectSeq(as_bytes(string), LAMBDA b : b # 0) \o <<0>>]

\* Every read gives the packet afterwards and the Option it returns.
read_u8(p) ==
    IF p.pos < Len(p.data)
    THEN [p |-> [p EXCEPT !.pos = p.pos + 1], value |-> <<p.data[p.pos + 1]>>]
    ELSE [p |-> p, value |-> None]

read_i8(p) ==
    LET r == read_u8(p)
    IN [p |-> r.p, value |-> IF r.value = None THEN None ELSE <<ReadI8(r.value[1])>>]

read_u16(p) ==
    IF p.pos + 2 <= Len(p.data)
    THEN [p |-> [p EXCEPT !.pos = p.pos + 2],
          value |-> <<u16_from_be_bytes(SubSeq(p.data, p.pos + 1, p.pos + 2))>>]
    ELSE [p |-> p, value |-> None]

read_i16(p) ==
    LET r == read_u16(p)
    IN [p |-> r.p,
        value |-> IF r.value = None THEN None
                  ELSE <<IF r.value[1] >= 32768 THEN r.value[1] - 65536
                         ELSE r.value[1]>>]

read_u32(p) ==
    IF p.pos + 4 <= Len(p.data)
    THEN [p |-> [p EXCEPT !.pos = p.pos + 4],
          value |-> <<u32_from_be_bytes(SubSeq(p.data, p.pos + 1, p.pos + 4))>>]
    ELSE [p |-> p, value |-> None]

read_i32(p) ==
    LET r == read_u32(p)
    IN [p |-> r.p, value |-> IF r.value = None THEN None ELSE <<AsI32(r.value[1])>>]

read_string(p) ==
    LET rest == SubSeq(p.data, p.pos + 1, Len(p.data))
        nuls == {i \in 1..Len(rest) : rest[i] = 0}
    IN IF nuls = {} THEN [p |-> p, value |-> None]
       ELSE LET terminator == (CHOOSE i \in nuls : \A j \in nuls : i <= j) - 1
            IN [p |-> [p EXCEPT !.pos = p.pos + terminator + 1],
                value |-> <<from_utf8_lossy(SubSeq(rest, 1, terminator))>>]

read_safe_string(p) ==
    LET r == read_string(p)
    IN [p |-> r.p,
        value |-> IF r.value = None THEN None
                  ELSE <<SelectSeq(r.value[1], is_printable)>>]

read_sha1sum(p) ==
    IF p.pos + 20 <= Len(p.data)
    THEN [p |-> [p EXCEPT !.pos = p.pos + 20],
          value |-> <<SubSeq(p.data, p.pos + 1, p.pos + 20)>>]
    ELSE [p |-> p, value |-> None]

reset(p) == [p EXCEPT !.pos = 0]

\* the write of a value of the given type
write(p, type, value) ==
    CASE type = "u8" -> write_u8(p, value)
      [] type = "i8" -> write_i8(p, value)
      [] type = "u16" -> write_u16(p, value)
      [] type = "i16" -> write_i16(p, value)
      [] type = "u32" -> write_u32(p, value)
      [] type = "i32" -> write_i32(p, value)
      [] type = "string" -> write_string(p, value)
      [] type = "sha1sum" -> write_blob(p, value)

\* the read of the given type
read(p, type) ==
    CASE type = "u8" -> read_u8(p)
      [] type = "i8" -> read_i8(p)
      [] type = "u16" -> read_u16(p)
      [] type = "i16" -> read_i16(p)
      [] type = "u32" -> read_u32(p)
      [] type = "i32" -> read_i32(p)
      [] type = "string" -> read_string(p)
      [] type = "safe_string" -> read_safe_string(p)
      [] type = "sha1sum" -> read_sha1sum(p)

\* "Hello\0World\x1F!"
HelloWorld == <<72, 101, 108, 108, 111, 0, 87, 111, 114, 108, 100, 31, 33>>

\* "Hello"
Hello == <<72, 101, 108, 108, 111>>

\* the strings of the model: empty, "H", "Hi", U+00E9, a space, "H\0i",
\* "\x1FH" and the string of test_write_and_read_safe_string
Strings ==
    {<<>>, <<72>>, <<72, 105>>, <<233>>, <<32>>, <<72, 0, 105>>, <<31, 72>>,
     HelloWorld}

\* the values of the model for every type; none has a byte in 0xE0 .. 0xF4
Values(type) ==
    CASE type = "u8" -> {0, 1, 127, 128, 255}
      [] type = "i8" -> {-128, -1, 0, 1, 127}
      [] type = "u16" -> {0, 255, 256, 32767, 32768, 65535}
      [] type = "i16" -> {-32768, -12345, -1, 0, 258, 32767}
      [] type = "u32" -> {0, 16909060, 2147483647, -2147483647 - 1, -1}
      [] type = "i32" -> {-2147483647 - 1, -16909060, -1, 0, 16909060, 2147483647}
      [] type = "string" -> Strings
      [] type = "sha1sum" -> {[i \in 1..20 |-> 7]}

WriteTypes == {"u8", "i8", "u16", "i16", "u32", "i32", "string", "sha1sum"}

ReadTypes == WriteTypes \cup {"safe_string"}

\* the width in bytes of an integer type
Width(type) ==
    CASE type \in {"u8", "i8"} -> 1
      [] type \in {"u16", "i16"} -> 2
      [] type \in {"u32", "i32"} -> 4

PacketInit ==
    /\ packet = NetPacket_new
    /\ io = NoIo
    /\ dup = NoDup
    /\ sync = NoSync
    /\ pc = "write"
    /\ client = NetClient_new(FALSE, "first")
    /\ now = 0
    /\ inbox = <<>>
    /\ last = NoStep
    /\ start_time = 0
    /\ connect_ret = "none"
    /\ ex_tic = 0
    /\ ex_out = 0
    /\ pacer = d_loop_statics
    /\ ticdiff = NoTicdiff

\* one write_* call
Write(type, value) ==
    /\ pc = "write"
    /\ Len(io.writes) < MaxWrites
    /\ packet' = write(packet, type, value)
    /\ io' = [io EXCEPT !.writes = Append(@, [type |-> type, value |-> value])]
    /\ UNCHANGED <<client, now, inbox, last, pc, start_time, connect_ret, ex_tic,
                   ex_out, pacer, ticdiff, dup, sync>>

\* reset()
Reset ==
    /\ pc = "write"
    /\ packet' = reset(packet)
    /\ pc' = "read"
    /\ UNCHANGED <<client, now, inbox, last, start_time, connect_ret, ex_tic,
                   ex_out, pacer, ticdiff, io, dup, sync>>

\* one read_* call
Read(type) ==
    /\ pc = "read"
    /\ \E r \in {read(packet, type)} :
          /\ packet' = r.p
          /\ io' = [io EXCEPT !.op = type, !.value = r.value, !.before = packet.pos]
    /\ UNCHANGED <<client, now, inbox, last, pc, start_time, connect_ret, ex_tic,
                   ex_out, pacer, ticdiff, dup, sync>>

PacketNext ==
    \/ \E type \in WriteTypes : \E value \in Values(type) : Write(type, value)
    \/ Reset
    \/ \E type \in ReadTypes : Read(type)

SpecPacket == PacketInit /\ [][PacketNext]_vars

\* the step is the first read after reset(), of the type of the only write
FirstReadMatches ==
    /\ pc = "read"
    /\ Len(io.writes) = 1
    /\ io.op = "none"
    /\ packet.pos = 0
    /\ io' # io
    /\ io'.op = io.writes[1].type

\* C22: a value of an integer type written to an empty packet is read back
\* by the matching read after reset(), which advances the cursor by the
\* width of the type; a string without NUL is read back by read_string
C22_RoundTrip ==
    [][FirstReadMatches =>
          LET w == io.writes[1]
          IN /\ w.type \in {"u8", "i8", "u16", "i16", "u32", "i32"}
                   => /\ io'.value = <<w.value>>
                      /\ packet'.pos = Width(w.type)
             /\ w.type = "string" /\ (\A i \in 1..Len(w.value) : w.value[i] # 0)
                   => io'.value = <<w.value>>]_vars

\* i16 -12345 has been written and read back
C22_Witness ==
    /\ Len(io.writes) = 1
    /\ io.writes[1].type = "i16"
    /\ io.writes[1].value = -12345
    /\ io.op = "i16"
    /\ io.value = <<-12345>>
    /\ packet.pos = 2

\* the part of a string before its first NUL
BeforeNul(string) ==
    LET nuls == {i \in 1..Len(string) : string[i] = 0}
    IN IF nuls = {} THEN string
       ELSE SubSeq(string, 1, (CHOOSE i \in nuls : \A j \in nuls : i <= j) - 1)

\* C23: a string written with write_string is read back by read_safe_string
\* as its part before the first NUL, without the non-printable characters
\* ("Hello\0World\x1F!" gives "Hello")
C23_SafeStringStopsAtNul ==
    [][/\ pc = "read"
       /\ Len(io.writes) = 1
       /\ io.writes[1].type = "string"
       /\ io.op = "none"
       /\ packet.pos = 0
       /\ io' # io
       /\ io'.op = "safe_string"
       => io'.value = <<SelectSeq(BeforeNul(io.writes[1].value), is_printable)>>]_vars

\* C24: a read that returns None (too few bytes remain) leaves the cursor
\* at the end of the data, so that every later read returns None as well
C24_FailedReadEndsPacket ==
    [][pc = "read" /\ io' # io /\ io'.value = None
          => packet'.pos = Len(packet'.data)]_vars

---------------------------------------------------------------------------
(* The periodic sweep of check_resends, applied to receive windows whose
   first slots are held or missing with requests of several ages *)

\* Duration::from_secs(1) of check_resends, in units of 100 ms
DEADLOCK_TIMEOUT == 10

\* the instant of the sweep: later than DEADLOCK_TIMEOUT after instant 0
SweepNow == 12

\* the slots whose state is drawn; the others were asked for at SweepNow
MaxSweepSlots == 2

\* request times: older than DEADLOCK_TIMEOUT, between the two
\* thresholds, at RESEND_TIMEOUT, and younger
SweepTimes == {1, SweepNow - RESEND_TIMEOUT - 1, SweepNow - RESEND_TIMEOUT, SweepNow - 1}

SweepInit ==
    /\ \E draft \in {"first", "last"},
          active \in [0..(MaxSweepSlots - 1) -> BOOLEAN],
          resend_time \in [0..(MaxSweepSlots - 1) -> SweepTimes],
          recv_time \in {1, SweepNow - 1},
          need \in BOOLEAN :
          client = [InGameClient(draft) EXCEPT
                      !.need_acknowledge = need,
                      !.gamedata_recv_time = recv_time,
                      !.recv_window =
                          [i \in 0..(BACKUPTICS - 1) |->
                              IF i < MaxSweepSlots
                              THEN [active |-> active[i],
                                    resend_time |-> resend_time[i],
                                    cmd |-> IF active[i] THEN Bundle(i) ELSE NoCmd]
                              ELSE [EmptyRecvSlot EXCEPT !.resend_time = SweepNow]]]
    /\ now = SweepNow
    /\ inbox = <<>>
    /\ last = NoStep
    /\ pc = "sweep"
    /\ start_time = 0
    /\ connect_ret = "none"
    /\ ex_tic = 0
    /\ ex_out = 0
    /\ pacer = d_loop_statics
    /\ ticdiff = NoTicdiff
    /\ packet = NetPacket_new
    /\ io = NoIo
    /\ dup = NoDup
    /\ sync = NoSync

\* run() reaches check_resends
Sweep ==
    /\ pc = "sweep"
    /\ client' = check_resends(Fresh(client), now)
    /\ pc' = "swept"
    /\ UNCHANGED <<now, inbox, last, start_time, connect_ret, ex_tic, ex_out, pacer, ticdiff, packet, io, dup, sync>>

SpecSweep == SweepInit /\ [][Sweep]_vars

\* C32: the sweep asks again for a slot i > 0 exactly when the slot is
\* inactive and more than RESEND_TIMEOUT has passed since its last
\* request; it asks again for slot 0 exactly when the slot is inactive and
\* more than DEADLOCK_TIMEOUT has passed both since its last request and
\* since the last GAMEDATA, not on the RESEND_TIMEOUT threshold.
C32_SweepThresholds ==
    [][\A i \in 0..(MaxSweepSlots - 1) :
          LET slot == client.recv_window[i]
              asked == RequestsFor(client'.sent, client.recv_window_start + i) # {}
          IN IF i = 0
             THEN asked <=> /\ ~slot.active
                            /\ now - slot.resend_time > DEADLOCK_TIMEOUT
                            /\ now - client.gamedata_recv_time > DEADLOCK_TIMEOUT
             ELSE asked <=> /\ ~slot.active
                            /\ now - slot.resend_time > RESEND_TIMEOUT]_vars

---------------------------------------------------------------------------
(* Calls of run() in a game whose server is several tics ahead: datagrams
   arrive between the calls and the clock runs without sliding *)

\* tics the server has produced
MaxStepTic == 4

\* datagrams one call of run() finds
MaxStepInbox == 2

\* latest instant: a request of SessionStart is older than RESEND_TIMEOUT
MaxStepNow == 5

\* run() is not followed beyond this window start
MaxStepWindow == 3

StepInit ==
    /\ \E draft \in {"first", "last"} : client = InGameClient(draft)
    /\ now = SessionStart
    /\ inbox = <<>>
    /\ last = NoStep
    /\ pc = "idle"
    /\ start_time = 0
    /\ connect_ret = "none"
    /\ ex_tic = 0
    /\ ex_out = 0
    /\ pacer = d_loop_statics
    /\ ticdiff = NoTicdiff
    /\ packet = NetPacket_new
    /\ io = NoIo
    /\ dup = NoDup
    /\ sync = NoSync

\* a datagram with the n tics from t on arrives
StepArrive(t, n) ==
    /\ Len(inbox) < MaxStepInbox
    /\ t + n <= MaxStepTic
    /\ inbox' = Append(inbox, GameData(t, n))
    /\ UNCHANGED <<client, now, last, pc, start_time, connect_ret, ex_tic, ex_out, pacer, ticdiff, packet, io, dup, sync>>

\* the embedder lets 400 ms pass: requests become older than RESEND_TIMEOUT
StepTick ==
    /\ now + RESEND_TIMEOUT + 1 <= MaxStepNow
    /\ now' = now + RESEND_TIMEOUT + 1
    /\ UNCHANGED <<client, inbox, last, pc, start_time, connect_ret, ex_tic, ex_out, pacer, ticdiff, packet, io, dup, sync>>

\* the embedder calls run(), which takes every datagram that has arrived
StepRun ==
    /\ ~client.faulted
    /\ client.recv_window_start < MaxStepWindow
    /\ client' = run(Fresh(client), inbox, now)
    /\ inbox' = <<>>
    /\ last' = StepOf([type |-> "run"], client)
    /\ UNCHANGED <<now, pc, start_time, connect_ret, ex_tic, ex_out, pacer, ticdiff, packet, io, dup, sync>>

StepNext ==
    \/ \E t \in 0..(MaxStepTic - 1), n \in 1..2 : StepArrive(t, n)
    \/ StepTick
    \/ StepRun

SpecStep == StepInit /\ [][StepNext]_vars

\* the tics the datagrams pkts carry
TicsOf(pkts) ==
    UNION {{pkts[i].cmds[k].tic : k \in 1..Len(pkts[i].cmds)} : i \in 1..Len(pkts)}

\* C33: in one call of run() every datagram is parsed before the receive
\* window is advanced, and the window is advanced before the sweep of
\* check_resends; so the sweep of that call asks neither for a tic that a
\* datagram of the call carried nor for a tic below recv_window_start.
C33_SweepAfterAdvance ==
    [][StepRun =>
          LET parsed == recv_loop(run_bot(Fresh(client), now), inbox, now)
              advanced == advance_window(parsed)
              swept == check_resends(Fresh(advanced), now)
          IN /\ client'.recv_window = swept.recv_window
             /\ client'.recv_window_start = advanced.recv_window_start
             /\ client'.sent = parsed.sent \o swept.sent
             /\ \A v \in 0..(MaxStepTic + BACKUPTICS) :
                   RequestsFor(swept.sent, v) # {} =>
                       /\ v \notin TicsOf(inbox)
                       /\ v >= client'.recv_window_start]_vars

---------------------------------------------------------------------------
(* build_new_tic and the tics the simulation runs, without the clock:
   net_update may call build_new_tic at any time, try_run_tics runs a tic
   while low_tic is ahead of the game, and the embedder may disconnect *)

\* game tics followed
MaxBuildTic == 12

BuildInit ==
    /\ \E draft \in {"first", "last"} :
          client \in {NetClient_new(FALSE, draft), InGameClient(draft)}
    /\ pacer = d_loop_statics
    /\ now = SessionStart
    /\ inbox = <<>>
    /\ last = NoStep
    /\ pc = "idle"
    /\ start_time = 0
    /\ connect_ret = "none"
    /\ ex_tic = 0
    /\ ex_out = 0
    /\ ticdiff = NoTicdiff
    /\ packet = NetPacket_new
    /\ io = NoIo
    /\ dup = NoDup
    /\ sync = NoSync

\* net_update calls build_new_tic
Build ==
    /\ ~client.faulted
    /\ \E r \in {build_new_tic([d |-> pacer, c |-> Fresh(client)])} :
          /\ pacer' = r.d
          /\ client' = r.c
          /\ pc' = IF r.built THEN "built" ELSE "bailed"
    /\ UNCHANGED <<now, inbox, last, start_time, connect_ret, ex_tic, ex_out, ticdiff, packet, io, dup, sync>>

\* try_run_tics runs one tic of the game
BuildRunTic ==
    /\ ~client.faulted
    /\ pacer.GAMETIC < MaxBuildTic
    /\ pacer.GAMETIC \div TICDUP < get_low_tic(pacer, client)
    /\ pacer' = [pacer EXCEPT !.GAMETIC = @ + 1]
    /\ pc' = "ran"
    /\ UNCHANGED <<client, now, inbox, last, start_time, connect_ret, ex_tic, ex_out, ticdiff, packet, io, dup, sync>>

\* the embedder calls disconnect()
BuildDisconnect ==
    /\ ~client.faulted
    /\ is_connected(client)
    /\ client' = disconnect(Fresh(client))
    /\ pc' = "idle"
    /\ UNCHANGED <<pacer, now, inbox, last, start_time, connect_ret, ex_tic, ex_out, ticdiff, packet, io, dup, sync>>

\* net_update on the pair s while the datagrams pkts wait at the transport
net_update_recv(s, pkts) ==
    CHOOSE out \in {check_time(s.d, c1) : c1 \in {run(s.c, pkts, now)}} : TRUE

\* the embedder calls net_update while the datagram p has arrived; the
\* clock has not reached the next tic
BuildNetUpdate(p) ==
    /\ ~client.faulted
    /\ client.recv_window_start < MaxWindow
    /\ \E r \in {net_update_recv([d |-> pacer, c |-> Fresh(client)], <<p>>)} :
          /\ pacer' = r.d
          /\ client' = r.c
    /\ pc' = "updated"
    /\ UNCHANGED <<now, inbox, last, start_time, connect_ret, ex_tic, ex_out, ticdiff, packet, io, dup, sync>>

BuildNext ==
    \/ Build
    \/ BuildRunTic
    \/ BuildDisconnect
    \/ \E p \in GameDataPackets : BuildNetUpdate(p)

SpecBuild == BuildInit /\ [][BuildNext]_vars

\* how far the tics built are ahead of the game
Ahead(d) == d.MAKETIC - d.GAMETIC \div TICDUP

\* the largest lead the back-pressure of build_new_tic allows
MaxAhead(c) == IF ~NEW_SYNC THEN 5 ELSE IF is_connected(c) THEN 9 ELSE 3

\* C34: build_new_tic pumps the event and menu sinks on every call and
\* builds nothing (MAKETIC and the send ring unchanged) when the lead of
\* MAKETIC over GAMETIC / TICDUP is above 2 offline, above 8 online, or at
\* least 5 in legacy mode; hence the lead is at most 3 offline, 9 online
\* and 5 in legacy mode in every reachable state.
C34_BackPressure ==
    [][/\ Build =>
            LET r == build_new_tic([d |-> pacer, c |-> Fresh(client)])
            IN /\ r.pumped
               /\ Ahead(pacer) >= MaxAhead(client) =>
                     /\ ~r.built
                     /\ pacer'.MAKETIC = pacer.MAKETIC
                     /\ client'.send_queue = client.send_queue
       /\ Ahead(pacer') <= MaxAhead(client')]_vars

\* C35: after every net_update the pacer's RECVTIC equals the client's
\* recv_window_start, so that low_tic of an online game grows with the tics
\* the receive ring has handed over.
C35_RecvTicMirrorsWindow ==
    pc = "updated" =>
        /\ pacer.RECVTIC = client.recv_window_start
        /\ is_connected(client) =>
              get_low_tic(pacer, client) = Min(pacer.MAKETIC, client.recv_window_start)

---------------------------------------------------------------------------
(* The loop of try_run_tics that runs one network tic TICDUP times.  No
   code of src/ assigns TICDUP; the tic-duplication factors the game
   settings can carry are drawn here. *)

\* largest tic-duplication factor
MaxTicdup == 3

\* players whose commands are followed
MaxDupPlayers == 2

\* BT_SPECIAL, the literal 0x80 of ticdup_squash
BT_SPECIAL == 128

\* commands with and without a chat character, with and without BT_SPECIAL
DupCmds ==
    {[TicCmd_default EXCEPT !.chatchar = ch, !.buttons = b, !.forwardmove = f] :
        ch \in {0, 65}, b \in {0, 1, BT_SPECIAL, BT_SPECIAL + 1}, f \in {50}}

\* `cmd.buttons & 0x80 != 0`
has_special(cmd) == (cmd.buttons \div BT_SPECIAL) % 2 = 1

\* the duplicated tics see the commands as they are
ticdup_no_squash(set) == set

ticdup_squash(set) ==
    [p \in DOMAIN set |->
        [set[p] EXCEPT !.chatchar = 0,
                       !.buttons = IF has_special(set[p]) THEN 0 ELSE @]]

\* `for _ in 0..TICDUP` of try_run_tics from its pass n on: run_tic sees
\* the set, GAMETIC grows by one, the set is squashed
RECURSIVE run_tic_loop(_, _)
run_tic_loop(d, n) ==
    IF n >= d.ticdup THEN [d EXCEPT !.pc = "done"]
    ELSE IF d.GAMETIC \div d.ticdup > d.lowtic THEN [d EXCEPT !.pc = "panicked"]
    ELSE run_tic_loop([d EXCEPT !.seen = Append(@, d.set),
                                !.GAMETIC = @ + 1,
                                !.set = ticdup_squash(d.set)], n + 1)

DupInit ==
    /\ \E ticdup \in 1..MaxTicdup, tic \in 0..1, ahead \in 0..1,
          set \in [1..MaxDupPlayers -> DupCmds] :
          dup = [pc |-> "run", ticdup |-> ticdup, set |-> set, original |-> set,
                 seen |-> <<>>, GAMETIC |-> tic * ticdup, entry |-> tic * ticdup,
                 lowtic |-> tic + ahead]
    /\ \E draft \in {"first", "last"} : client = InGameClient(draft)
    /\ pacer = d_loop_statics
    /\ now = SessionStart
    /\ inbox = <<>>
    /\ last = NoStep
    /\ pc = "idle"
    /\ start_time = 0
    /\ connect_ret = "none"
    /\ ex_tic = 0
    /\ ex_out = 0
    /\ ticdiff = NoTicdiff
    /\ packet = NetPacket_new
    /\ io = NoIo
    /\ sync = NoSync

\* try_run_tics runs the network tic
DupRunTic ==
    /\ dup.pc = "run"
    /\ dup' = run_tic_loop(dup, 0)
    /\ UNCHANGED <<client, now, inbox, last, pc, start_time, connect_ret, ex_tic, ex_out, pacer, ticdiff, packet, io, sync>>

SpecDup == DupInit /\ [][DupRunTic]_vars

\* C36: a network tic that try_run_tics runs invokes the simulation
\* exactly ticdup times and adds ticdup to GAMETIC; the first invocation
\* sees the commands of the tic as they were, every later one sees them
\* with chatchar 0 for every player and buttons 0 for every command that
\* had BT_SPECIAL set, and nothing else changed.
C36_TicdupSquash ==
    dup.pc = "done" =>
        /\ Len(dup.seen) = dup.ticdup
        /\ dup.GAMETIC = dup.entry + dup.ticdup
        /\ dup.seen[1] = dup.original
        /\ \A k \in 2..dup.ticdup : \A p \in 1..MaxDupPlayers :
              dup.seen[k][p] =
                  [dup.original[p] EXCEPT
                      !.chatchar = 0,
                      !.buttons = IF has_special(dup.original[p]) THEN 0 ELSE @]

\* a tic was run three times whose commands carry a chat character, and
\* BT_SPECIAL together with another button
C36_Witness ==
    /\ dup.pc = "done"
    /\ dup.ticdup = MaxTicdup
    /\ dup.original[1].chatchar # 0
    /\ dup.original[1].buttons = BT_SPECIAL + 1
    /\ dup.original[2].buttons = 1

---------------------------------------------------------------------------
(* The clock controller of update_clock_sync over several calls *)

\* calls of update_clock_sync followed
MaxSyncCalls == 3

\* KP, KI and KD of update_clock_sync, in thousandths
KP == 100

KI == 10

KD == 20

\* errors of a call in milliseconds (measured minus reported latency)
SyncErrors == {-30, 0, 20, 50, 130}

\* `x as i32` of the float x = n / 1000: the fraction is cut off
TruncThousandths(n) == IF n >= 0 THEN n \div 1000 ELSE -((-n) \div 1000)

\* the locals of update_clock_sync when it returns, for the error of the
\* call: cumul_error and last_error start at 0 in every call; the last
\* definition of the function computes nothing
clock_sync_locals(draft, error) ==
    IF draft = "first"
    THEN LET cumul_error == 0 + error
             last_error == 0
         IN [cumul_error |-> cumul_error,
             derivative |-> last_error - error,
             offset_ms |-> TruncThousandths(KP * error - KI * cumul_error
                                              + KD * (last_error - error)),
             last_error |-> error]
    ELSE [cumul_error |-> 0, derivative |-> 0, offset_ms |-> 0, last_error |-> 0]

SyncInit ==
    /\ \E draft \in {"first", "last"} : client = InGameClient(draft)
    /\ sync = NoSync
    /\ dup = NoDup
    /\ pacer = d_loop_statics
    /\ now = SessionStart
    /\ inbox = <<>>
    /\ last = NoStep
    /\ pc = "idle"
    /\ start_time = 0
    /\ connect_ret = "none"
    /\ ex_tic = 0
    /\ ex_out = 0
    /\ ticdiff = NoTicdiff
    /\ packet = NetPacket_new
    /\ io = NoIo

\* parse_game_data calls update_clock_sync for a tic whose error is e;
\* sum and previous keep what a persistent controller would hold, OFFSETMS
\* is the static of d_loop.rs, which update_clock_sync does not write
ClockSync(e) ==
    /\ sync.calls < MaxSyncCalls
    /\ \E r \in {clock_sync_locals(client.draft, e)} :
          sync' = [calls |-> sync.calls + 1,
                   cumul_error |-> r.cumul_error,
                   last_error |-> r.last_error,
                   offset_ms |-> r.offset_ms,
                   derivative |-> r.derivative,
                   sum |-> sync.sum + e,
                   previous |-> e,
                   OFFSETMS |-> sync.OFFSETMS]
    /\ UNCHANGED <<client, now, inbox, last, pc, start_time, connect_ret, ex_tic, ex_out, pacer, ticdiff, packet, io, dup>>

SyncNext == \E e \in SyncErrors : ClockSync(e)

SpecSync == SyncInit /\ [][SyncNext]_vars

\* C37: the controller's state persists across calls: after the calls with
\* errors e1 .. ek, cumul_error is e1 + ... + ek and last_error is ek, the
\* derivative term of call k is e(k-1) - ek, and the offset the call
\* computed is published to the pacer's OFFSETMS.
C37_ControllerPersists ==
    [][\A e \in SyncErrors :
          ClockSync(e) =>
              /\ sync'.cumul_error = sync.sum + e
              /\ sync'.last_error = e
              /\ sync'.derivative = sync.previous - e
              /\ sync'.OFFSETMS = sync'.offset_ms]_vars

=============================================================================
